---- MODULE Spec2Model ----
(***************************************************************************)
(* A model of giger's upload pipeline (src/api/api.js, src/api/aws.js,     *)
(* src/api/mongo.js, src/api/utils.js): upload requests, the async job     *)
(* collection, the cron scheduler and its drain passes, and the S3         *)
(* uploader with its single-PUT and multipart paths.                       *)
(*                                                                         *)
(* Node runs one handler at a time: a step of the model is the code that   *)
(* runs between two awaits of one request or drain pass.  A call to the    *)
(* store or to S3 takes effect in the step that issues it and its answer   *)
(* is processed by a later step of the same request or pass, so steps of   *)
(* other requests and passes may come in between.  A call that throws has  *)
(* had no effect on the store or on S3.                                    *)
(***************************************************************************)
EXTENDS Integers, Sequences, FiniteSets, TLC

VARIABLES
    db,           \* the asyncUploads collection, in insertion order; _id = index
    cron,         \* the CronJob CRON: running, and whether start() hit a running job
    tmp,          \* TEMP_DIR: file name -> size in bytes, for the files that exist
    reqs,         \* the upload requests: id -> request record
    passes,       \* the drain passes started so far, in tick order
    calls,        \* the uploadToS3 call of each caller: caller -> frame
    faults        \* how many store/S3/stream calls have failed so far

vars == <<db, cron, tmp, reqs, passes, calls, faults>>

----------------------------------------------------------------------------
(* Bounds of the model *)

\* upload requests of one run
MaxReqs == 2
\* scheduler ticks (drain passes) of one run
MaxTicks == 2
\* named transforms of an object (derived files per upload)
MaxTransforms == 1
\* store, S3 and stream failures of one run
MaxFaults == 1
\* jobs found pending in the collection when a single pass is studied
MaxJobs == 2

\* the largest width and height of the small images
MaxSide == 9
\* runs of the cleaning job
MaxSweeps == 2
\* steps of the clock after which the age of a file is no longer counted
MaxClock == 3

----------------------------------------------------------------------------
(* Program constants *)

\* aws.js:17   const DEFAULT_CHUCK_SIZE = 50*1024*1024
DEFAULT_CHUCK_SIZE == 50 * 1024 * 1024

\* aws.js:69   size/1024/1024 <= 100: the two divisions are exact in a double,
\* so the test is size <= 100 * 1024 * 1024
PutLimitBytes == 100 * 1024 * 1024

\* aws.js:125  fs.createReadStream(path) is given no highWaterMark: a data
\* event carries at most Node's default of 64 KiB
HighWaterMark == 64 * 1024


----------------------------------------------------------------------------
(* File names.  A name is a sequence of symbols: the name multer gives the
   upload of request r is <<r>> (unique per request), and the file derived by
   the k-th named transform is name \o <<Underscore, TransformName(k)>>. *)

Underscore == 0
TransformName(k) == 10 + k

\* utils.js:65   const _filename = `${filename}_${transformName}`
DerivedName(filename, k) == filename \o <<Underscore, TransformName(k)>>

\* the character '+' of a name: a quantifier when the name is read as a
\* regular expression
Plus == 50

\* the character '$' of a name: the end-of-input assertion when the name is
\* read as a regular expression, and the escape of a replacement pattern
Dollar == 51

\* utils.js:151  new RegExp(filename, 'g') reads the name as a pattern: a
\* sequence of characters, each one possibly followed by the quantifier '+'
RECURSIVE Atoms(_)
Atoms(p) ==
    IF p = <<>> THEN <<>>
    ELSE IF Len(p) >= 2 /\ p[2] = Plus
    THEN <<[ch |-> p[1], plus |-> TRUE]>> \o Atoms(SubSeq(p, 3, Len(p)))
    ELSE <<[ch |-> p[1], plus |-> FALSE]>> \o Atoms(Tail(p))

\* utils.js:151  new RegExp(filename) throws a SyntaxError when a quantifier
\* has nothing to repeat
ValidRegExp(p) ==
    \A i \in 1..Len(p) :
        p[i] = Plus => (i > 1 /\ p[i - 1] # Plus /\ p[i - 1] # Dollar)

\* the pattern matches s from position j on
RECURSIVE MatchAt(_, _, _)
MatchAt(atoms, s, j) ==
    IF atoms = <<>> THEN TRUE
    ELSE IF atoms[1].ch = Dollar THEN j > Len(s) /\ MatchAt(Tail(atoms), s, j)
    ELSE IF j > Len(s) THEN FALSE
    ELSE IF s[j] # atoms[1].ch THEN FALSE
    ELSE \/ MatchAt(Tail(atoms), s, j + 1)
         \/ atoms[1].plus /\ MatchAt(atoms, s, j + 1)

\* utils.js:151  f.match(new RegExp(filename, 'g')): the pattern made of the
\* name matches somewhere in f
Matches(f, filename) ==
    \E j \in 1..(Len(f) + 1) : MatchAt(Atoms(filename), f, j)

\* utils.js:147-151  removeFile(filename) throws (the RegExp constructor)
RemoveThrows(filename) == filename # <<>> /\ ~ValidRegExp(filename)

\* utils.js:147-158  removeFile(filename): unlink every file of TEMP_DIR whose
\* name matches; nothing when the name is empty
removeFile(fs, filename) ==
    IF filename = <<>> \/ RemoveThrows(filename) THEN fs
    ELSE [f \in {g \in DOMAIN fs : ~Matches(g, filename)} |-> fs[f]]

\* fs gains (or overwrites) file f with the given size; age is the time
\* since its mtime, in milliseconds
WriteFile(fs, f, size) ==
    [g \in (DOMAIN fs) \cup {f} |->
        IF g = f THEN [size |-> size, age |-> 0] ELSE fs[g]]

RECURSIVE WriteFiles(_, _, _)
WriteFiles(fs, names, size) ==
    IF names = <<>> THEN fs
    ELSE WriteFiles(WriteFile(fs, Head(names), size), Tail(names), size)

\* api.js:106-116  the names of [source] followed by one derived file per
\* named transform, in list order (utils.js:52-74)
FileList(filename, nt) ==
    <<filename>> \o [k \in 1..nt |-> DerivedName(filename, k)]

\* a list of nt transforms, the k-th named TransformName(k)
NamedTransforms(nt) == [k \in 1..nt |-> [name |-> <<TransformName(k)>>]]

\* api.js:106, utils.js:73  a file object {path, filename, mimetype}; path
\* is the name of the entry in TEMP_DIR
File(path, filename, mimetype) ==
    [path |-> path, filename |-> filename, mimetype |-> mimetype]

\* files of one mime type whose entries in TEMP_DIR carry their names
Files(names, mimetype) ==
    [i \in 1..Len(names) |-> File(names[i], names[i], mimetype)]

\* aws.js:61  mimes.extension(mimetype): the first extension the mime
\* database lists for the type, false for a type it does not know
Extension(mimetype) ==
    CASE mimetype = "image/jpeg" -> "jpeg"
      [] mimetype = "image/png" -> "png"
      [] mimetype = "image/webp" -> "webp"
      [] mimetype = "image/avif" -> "avif"
      [] mimetype = "image/tiff" -> "tif"
      [] mimetype = "application/pdf" -> "pdf"
      [] mimetype = "video/mp4" -> "mp4"
      [] OTHER -> "false"

\* utils.js:67  mimes.lookup(outputFormat): the mime type of an extension
Lookup(format) ==
    CASE format = "jpeg" -> "image/jpeg"
      [] format = "png" -> "image/png"
      [] format = "webp" -> "image/webp"
      [] format = "avif" -> "image/avif"
      [] format = "tiff" -> "image/tiff"
      [] OTHER -> "false"

\* the text of a path is a sequence of words and slashes
Slash == "/"

RECURSIVE Squeeze(_)
\* utils.js:192  .replace(/\/{2,}/g, '/'): runs of slashes become one slash
Squeeze(t) ==
    IF Len(t) < 2 THEN t
    ELSE IF t[1] = Slash /\ t[2] = Slash THEN Squeeze(Tail(t))
    ELSE <<t[1]>> \o Squeeze(Tail(t))

RECURSIVE Join(_)
\* args.join('/')
Join(args) ==
    IF args = <<>> THEN <<>>
    ELSE IF Len(args) = 1 THEN args[1]
    ELSE args[1] \o <<Slash>> \o Join(Tail(args))

\* utils.js:190-193  joinPath(...args): the non-empty arguments joined by
\* slashes, runs of slashes squeezed
joinPath(args) ==
    Squeeze(Join(SelectSeq(args, LAMBDA o : o # <<>>)))

RECURSIVE transformImage_NoSkip(_, _, _)
\* a variant that writes a file for a transform without a name too
transformImage_NoSkip(file, transforms, outputFormat) ==
    IF transforms = <<>> THEN <<>>
    ELSE LET name == file.filename \o <<Underscore>> \o Head(transforms).name IN
         <<File(name, name, Lookup(outputFormat))>>
             \o transformImage_NoSkip(file, Tail(transforms), outputFormat)

RECURSIVE transformImage(_, _, _)
\* utils.js:45-78  transformImage({path, filename}, transforms, outputFormat):
\* the files it returns, one per transform that has a name, in list order,
\* each `${filename}_${transformName}` in TEMP_DIR with the mime type of the
\* output format
transformImage(file, transforms, outputFormat) ==
    IF transforms = <<>> THEN <<>>
    ELSE LET name == file.filename \o <<Underscore>> \o Head(transforms).name
             rest == transformImage(file, Tail(transforms), outputFormat)
         IN IF Head(transforms).name = <<>> THEN rest
            ELSE <<File(name, name, Lookup(outputFormat))>> \o rest

\* utils.js:52  the destructuring of a transform: a key that is not set
\* reads as undefined (0)
Option(t, key) == IF key \in DOMAIN t THEN t[key] ELSE 0

\* utils.js:58-60  the call of image.resize a transform makes: with width and
\* height, with the one that is set, or none (0: the key is not passed)
ResizeCalls(t) ==
    IF Option(t, "width") # 0 \/ Option(t, "height") # 0
    THEN <<[op |-> "resize", width |-> Option(t, "width"),
            height |-> Option(t, "height")]>>
    ELSE <<>>

\* utils.js:63  if (blur) await image.blur(blur)
BlurCalls(t) ==
    IF Option(t, "blur") # 0 THEN <<[op |-> "blur", sigma |-> Option(t, "blur")]>>
    ELSE <<>>

RECURSIVE Rendered_FreshHandle(_, _)
\* a variant that opens a new handle for every transform
Rendered_FreshHandle(image, transforms) ==
    IF transforms = <<>> THEN <<>>
    ELSE LET t == Head(transforms)
             handle == ResizeCalls(t) \o BlurCalls(t)
         IN IF Option(t, "name") = <<>>
            THEN Rendered_FreshHandle(image, Tail(transforms))
            ELSE <<handle>> \o Rendered_FreshHandle(image, Tail(transforms))

RECURSIVE Rendered(_, _)
\* utils.js:49-70  the loop of transformImage over the one handle
\* image = sharp(path): for each transform that has a name, the calls made on
\* the handle (image, the calls so far) when toFile writes its file
Rendered(image, transforms) ==
    IF transforms = <<>> THEN <<>>
    ELSE LET t == Head(transforms)
             handle == image \o ResizeCalls(t) \o BlurCalls(t)
         IN IF Option(t, "name") = <<>>
            THEN Rendered(image, Tail(transforms))
            ELSE <<handle>> \o Rendered(handle, Tail(transforms))

\* api.js:119-127  the S3 options of an upload (bucket, key prefix, the
\* option named cloudfront, "" for null, and the option named maxage; 0:
\* undefined)
Options ==
    [bucketName |-> "bucket", basePath |-> <<"obj-">>, region |-> "us-east-1",
     cloudfront |-> "", maxage |-> 0]

\* aws.js:48  the max-age used when the option maxAge is not set
DefaultMaxAge == 31540000

\* aws.js:40, 48  uploadToS3 takes maxAge out of the options by that name:
\* CacheControl is `max-age=${maxAge || 31_540_000}`
CacheControl(opts) ==
    IF "maxAge" \in DOMAIN opts /\ opts["maxAge"] # 0
    THEN opts["maxAge"] ELSE DefaultMaxAge

\* aws.js:64  params.Key = `${basePath}${filename}.${extension}`
KeyOf(opts, file) ==
    [prefix |-> opts.basePath, name |-> file.filename,
     ext |-> Extension(file.mimetype)]

\* a variant that puts the region in every URL
getS3URL_AlwaysRegion(opts, file) ==
    [defined |-> TRUE,
     host |-> <<opts.bucketName, "s3", opts.region, "amazonaws.com">>,
     key |-> KeyOf(opts, file)]

\* aws.js:250-256  getS3URL(region, bucket, key):
\* https://<bucket>.s3.amazonaws.com/<key> for us-east-1, else
\* https://<bucket>.s3.<region>.amazonaws.com/<key>; host: the labels of the
\* host name
getS3URL(opts, file) ==
    [defined |-> TRUE,
     host |-> IF opts.region = "us-east-1"
              THEN <<opts.bucketName, "s3", "amazonaws.com">>
              ELSE <<opts.bucketName, "s3", opts.region, "amazonaws.com">>,
     key |-> KeyOf(opts, file)]

\* what multipartUpload returns after a swallowed failure (aws.js:141-147)
Undefined ==
    [defined |-> FALSE, host |-> <<>>,
     key |-> [prefix |-> <<>>, name |-> <<>>, ext |-> ""]]

----------------------------------------------------------------------------
(* Failures.  A call to the store or to S3 answers "ok" or throws; a run has
   at most MaxFaults failures. *)

Answers == IF faults < MaxFaults THEN {"ok", "throw"} ELSE {"ok"}

\* an S3 answer may also lack the field the code reads (ETag, UploadId)
S3Answers == IF faults < MaxFaults THEN {"ok", "missing", "throw"} ELSE {"ok"}

\* the abort that follows a failed multipart step may fail with it (the same
\* outage), whatever the run's budget of failures
AbortAnswers == {"ok", "throw"}

Cost(a) == IF a = "ok" THEN 0 ELSE 1

----------------------------------------------------------------------------
(* The store (mongo.js) *)

\* mongo.js:60-63  getAsyncUploads({status: 'pending'}): the ids, in order
Pending(d) == {j \in 1..Len(d) : d[j].status = "pending"}

RECURSIVE SetToSeq(_)
SetToSeq(S) ==
    IF S = {} THEN <<>>
    ELSE LET m == CHOOSE x \in S : \A y \in S : x <= y
         IN <<m>> \o SetToSeq(S \ {m})

getAsyncUploads(d) == SetToSeq(Pending(d))

\* mongo.js:70-73  countAsyncUploads({status: 'pending'})
countAsyncUploads(d) == Cardinality(Pending(d))

\* a variant that stores the source file alone
insertAsyncUpload_SourceOnly(d, opts, files, r) ==
    Append(d, [options |-> opts, files |-> <<files[1]>>, status |-> "pending",
               urls |-> <<>>, error |-> "", by |-> r])

\* mongo.js:80-85  insertAsyncUpload(doc); api.js:162 gives the doc
\* {options, files, status: 'pending', createdAt}.  by: the request (ghost)
insertAsyncUpload(d, opts, files, r) ==
    Append(d, [options |-> opts, files |-> files, status |-> "pending",
               urls |-> <<>>, error |-> "", by |-> r])

\* mongo.js:93-96  updateAsyncUpload(_id, doc): $set on the document with
\* that _id, whatever its current status
updateStatus(d, j, st) == [d EXCEPT ![j].status = st]

updateSuccess(d, j, urls) == [d EXCEPT ![j].status = "success", ![j].urls = urls]

updateFailed(d, j, err) == [d EXCEPT ![j].status = "failed", ![j].error = err]


----------------------------------------------------------------------------
(* Records *)

Callers == ({"req"} \X (1..MaxReqs)) \cup ({"pass"} \X (1..MaxTicks))

\* the S3 calls issued for one file (ghost), and the state of its multipart
\* session on S3; manifest, ranges and returned: the Parts passed to
\* CompleteMultipartUpload, the byte ranges sent as parts and what S3
\* answered to each; lacked: a response came without UploadId or ETag
NewLog(size) ==
    [size |-> size, put |-> 0, create |-> 0, part |-> 0, complete |-> 0,
     abort |-> 0, session |-> "none", failed |-> FALSE, manifest |-> <<>>,
     ranges |-> <<>>, returned |-> <<>>, lacked |-> FALSE]

\* the read stream and the closure of multipartStream (aws.js:157-241)
NoStream ==
    [open |-> FALSE, off |-> 0, paused |-> FALSE, closed |-> FALSE,
     acc |-> -1, partNumber |-> 1, parts |-> <<>>, sent |-> <<>>,
     returned |-> <<>>,
     dataInFlight |-> "none", closeInFlight |-> "none",
     promise |-> "none"]

\* an uploadToS3 call (aws.js:40-81)
IdleCall ==
    [st |-> "idle", opts |-> Options, cache |-> 0, files |-> <<>>, fi |-> 0,
     urls |-> <<>>, op |-> "none", ans |-> "ok", err |-> "", cur |-> NewLog(0), log |-> <<>>,
     str |-> NoStream]

\* the metadata sharp reads from an image: its width and height in pixels
Image(width, height) == [width |-> width, height |-> height]

\* no image was read (the file is not an image)
NoImage == Image(0, 0)

\* one request: the inputs (method, X-Api-Key, Origin, the route parameters,
\* the file part, its mime type and the width and height of the image),
\* the locals of upload and processFile, and ghosts: the calls made on the
\* image handle when each derived file was written, the stages run so far,
\* the renames, the calls of removeFile, the responses sent and the status
\* code of the last one
IdleReq ==
    [pc |-> "idle", path |-> <<>>, filename |-> <<>>, async |-> FALSE,
     nt |-> 0, transforms |-> <<>>, format |-> "",
     files |-> <<>>, ans |-> "ok", result |-> "none", id |-> 0,
     urls |-> <<>>, error |-> "", removes |-> 0,
     method |-> "POST", key |-> "unset", origin |-> "ok",
     profile |-> "default", object |-> "", tag |-> <<>>, hasFile |-> TRUE,
     mimetype |-> "", image |-> NoImage, ratio |-> <<>>, original |-> <<>>,
     options |-> Options, renders |-> <<>>,
     stages |-> <<>>, renames |-> 0, responses |-> 0, http |-> 0]

\* api.js:56, 61  upload answers: res.json({status: 'ok', ...result}), or
\* res.status(418).json({status: 'error', error: e.toString()})
Answer(req, result, err) ==
    [req EXCEPT !.pc = "done", !.result = result, !.error = err,
                !.http = IF result = "ok" THEN 200 ELSE 418,
                !.responses = @ + 1,
                !.stages = Append(@, "response")]

\* a variant of the catch of upload that sends no response
Caught_Silent(req, fs, err) ==
    [req |-> [req EXCEPT !.pc = "done", !.removes = @ + 1],
     tmp |-> removeFile(fs, req.filename)]

\* api.js:137-142, 58-62  the catch of processFile calls removeFile(filename)
\* and rethrows (the exception of removeFile, when it throws); the catch of
\* upload answers the error
Caught(req, fs, err) ==
    [req |-> Answer([req EXCEPT !.removes = @ + 1], "error",
                    IF RemoveThrows(req.filename) THEN "SyntaxError" ELSE err),
     tmp |-> removeFile(fs, req.filename)]

NewPass(a, d) ==
    [pc |-> "fetch", ans |-> a,
     pending |-> IF a = "ok" THEN getAsyncUploads(d) ELSE <<>>,
     idx |-> 0, n |-> 0,
     \* ghosts: the jobs this pass marked uploading, those it called
     \* uploadToS3 for, those whose upload had a failure, the final statuses
     \* it wrote, whether its loop ran to its end, and whether one of its
     \* store updates threw
     locked |-> {}, attempted |-> {}, upfailed |-> {}, wrote |-> {},
     drained |-> FALSE, storeThrew |-> FALSE]

----------------------------------------------------------------------------
(* uploadToS3 (aws.js:40-81): the loop over the files *)

\* a variant that sends a file of exactly PutLimitBytes as a multipart upload
Dispatch_ExclusiveLimit(f, fs, a) ==
    IF f.fi > Len(f.files) THEN [f EXCEPT !.st = "returned", !.op = "none"]
    ELSE IF f.files[f.fi].path \notin DOMAIN fs
    THEN [f EXCEPT !.st = "threw", !.op = "none", !.err = "ENOENT"]
    ELSE LET size == fs[f.files[f.fi].path].size IN
         IF size < PutLimitBytes
         THEN [f EXCEPT !.op = "put", !.ans = a,
                        !.cur = [NewLog(size) EXCEPT !.put = 1]]
         ELSE [f EXCEPT !.op = "create", !.ans = a,
                        !.cur = [NewLog(size) EXCEPT !.create = 1,
                                     !.session = IF a = "ok" THEN "open" ELSE "none"]]

\* aws.js:54-69  the next file of the loop: statSync, then PutObject or
\* CreateMultipartUpload is sent, and answers a; after the last file the
\* call returns urls (aws.js:80)
Dispatch(f, fs, a) ==
    IF f.fi > Len(f.files) THEN [f EXCEPT !.st = "returned", !.op = "none"]
    ELSE IF f.files[f.fi].path \notin DOMAIN fs
    THEN [f EXCEPT !.st = "threw", !.op = "none", !.err = "ENOENT"]
    ELSE LET size == fs[f.files[f.fi].path].size IN
         IF size <= PutLimitBytes
         THEN [f EXCEPT !.op = "put", !.ans = a,
                        !.cur = [NewLog(size) EXCEPT !.put = 1]]
         ELSE [f EXCEPT !.op = "create", !.ans = a,
                        !.cur = [NewLog(size) EXCEPT !.create = 1,
                                     !.session = IF a = "ok" THEN "open" ELSE "none"]]

\* aws.js:40-54  uploadToS3(options, files) is called
StartCall(opts, files, fs, a) ==
    Dispatch([IdleCall EXCEPT !.st = "run", !.opts = opts,
                              !.cache = CacheControl(opts),
                              !.files = files, !.fi = 1],
             fs, a)

\* aws.js:70-71  urls.push(location), then the loop goes on
FileDone(f, location, fs, a) ==
    Dispatch([f EXCEPT !.urls = Append(@, location), !.fi = @ + 1,
                       !.log = Append(@, f.cur), !.str = NoStream],
             fs, a)

\* aws.js:73-77  the catch of the loop logs and rethrows
FileThrew(f, err) ==
    [f EXCEPT !.st = "threw", !.op = "none", !.err = err,
              !.log = Append(@, f.cur), !.str = NoStream]


----------------------------------------------------------------------------
(* The scheduler (api.js:21, 32): CRON is created with start = false *)

\* sweeps counts the runs of the cleaning job (api.js:34)
NewCron == [running |-> FALSE, restarted |-> FALSE, sweeps |-> 0]

\* CRON.start(); restarted records a start() of a job that was running
CronStart(c) ==
    [c EXCEPT !.running = TRUE, !.restarted = c.restarted \/ c.running]

\* CRON.stop()
CronStop(c) == [c EXCEPT !.running = FALSE]

\* a variant that starts the cron at every enqueue
CronAfterInsert_Unguarded(c) == CronStart(c)

\* api.js:165  if (!CRON.running) CRON.start()

CronAfterInsert(c) == IF ~c.running THEN CronStart(c) ELSE c

\* api.js:213-217  if (!await mongo.countAsyncUploads(...)) CRON.stop()
CronAfterCount(c, n) == IF n = 0 THEN CronStop(c) ELSE c

----------------------------------------------------------------------------
(* processAsyncUploads (api.js:182-220): one drain pass *)

\* api.js:190-197, 212-213  the for loop moves to its next job and sends
\* updateAsyncUpload(_id, {status: 'uploading'}), or, after the last job,
\* sends countAsyncUploads({status: 'pending'}); the call answers a
NextJob(pr, d, a) ==
    IF pr.idx < Len(pr.pending)
    THEN LET j == pr.pending[pr.idx + 1] IN
         [pass |-> [pr EXCEPT !.idx = @ + 1, !.pc = "lock", !.ans = a,
                              !.locked = IF a = "ok" THEN @ \cup {j} ELSE @,
                              !.storeThrew = @ \/ a # "ok"],
          db |-> IF a = "ok" THEN updateStatus(d, j, "uploading") ELSE d]
    ELSE [pass |-> [pr EXCEPT !.pc = "count", !.ans = a, !.drained = TRUE,
                              !.n = IF a = "ok" THEN countAsyncUploads(d) ELSE 0],
          db |-> d]

\* a variant whose catch puts the job back in the queue
MarkFailed_Requeue(pr, d, err, a) ==
    LET j == pr.pending[pr.idx] IN
    [pass |-> [pr EXCEPT !.pc = "failed", !.ans = a, !.storeThrew = @ \/ a # "ok"],
     db |-> IF a = "ok" THEN updateStatus(d, j, "pending") ELSE d]

\* api.js:206-209  the catch of one job sends
\* updateAsyncUpload(_id, {status: 'failed', error: e.toString()})
MarkFailed(pr, d, err, a) ==
    LET j == pr.pending[pr.idx] IN
    [pass |-> [pr EXCEPT !.pc = "failed", !.ans = a, !.storeThrew = @ \/ a # "ok",
                         !.wrote = IF a = "ok" THEN @ \cup {<<j, "failed">>} ELSE @],
     db |-> IF a = "ok" THEN updateFailed(d, j, err) ELSE d]

\* api.js:199-204 the upload of the job has returned urls: removeFile of the
\* source's name, then updateAsyncUpload(_id, {urls, status: 'success'})
MarkSuccess(pr, d, urls, a) ==
    LET j == pr.pending[pr.idx] IN
    [pass |-> [pr EXCEPT !.pc = "success", !.ans = a, !.storeThrew = @ \/ a # "ok",
                         !.wrote = IF a = "ok" THEN @ \cup {<<j, "success">>} ELSE @],
     db |-> IF a = "ok" THEN updateSuccess(d, j, urls) ELSE d]

\* a variant without the outer catch: the exception leaves
\* processAsyncUploads
OuterCatch_Rethrow(pr) == [pr EXCEPT !.pc = "crashed"]

\* api.js:219  the outer catch of processAsyncUploads logs the exception, and
\* the pass returns
OuterCatch(pr) == [pr EXCEPT !.pc = "done"]

\* api.js:32  the cron fires (every 30 s while CRON.running) and calls
\* processAsyncUploads, whether or not an earlier pass is still running;
\* api.js:188 getAsyncUploads is sent
Tick(maxTicks) ==
    /\ cron.running
    /\ Len(passes) < maxTicks
    /\ \E a \in Answers :
        /\ passes' = Append(passes, NewPass(a, db))
        /\ faults' = faults + Cost(a)
    /\ UNCHANGED <<db, cron, tmp, reqs, calls>>

\* api.js:188-197  the pending jobs have arrived (or the call threw: the outer
\* catch of api.js:219 ends the pass)
PassFetched(p) ==
    /\ passes[p].pc = "fetch"
    /\ IF passes[p].ans = "throw"
       THEN /\ passes' = [passes EXCEPT ![p] = OuterCatch(@)]
            /\ UNCHANGED <<db, faults>>
       ELSE \E a \in Answers :
            LET nx == NextJob(passes[p], db, a) IN
            /\ passes' = [passes EXCEPT ![p] = nx.pass]
            /\ db' = nx.db
            /\ faults' = faults + Cost(a)
    /\ UNCHANGED <<cron, tmp, reqs, calls>>

\* the uploadToS3 call of pass p has settled as frame f (api.js:199-209); a
\* removeFile that throws goes to the catch of the job like a failed upload
PassAfterUpload(p, f, a) ==
    LET pr == [passes[p] EXCEPT
                 !.upfailed = IF f.st = "threw" \/ \E i \in 1..Len(f.log) : f.log[i].failed
                              THEN @ \cup {passes[p].pending[passes[p].idx]} ELSE @]
        nx == IF f.st # "returned" THEN MarkFailed(pr, db, f.err, a)
              ELSE IF RemoveThrows(f.files[1].filename)
              THEN MarkFailed(pr, db, "SyntaxError", a)
              ELSE MarkSuccess(pr, db, f.urls, a)
    IN
    /\ a \in Answers
    /\ calls' = [calls EXCEPT ![<<"pass", p>>] = f]
    /\ tmp' = IF f.st = "returned" THEN removeFile(tmp, f.files[1].filename) ELSE tmp
    /\ passes' = [passes EXCEPT ![p] = nx.pass]
    /\ db' = nx.db
    /\ faults' = faults + Cost(a)
    /\ UNCHANGED <<cron, reqs>>


----------------------------------------------------------------------------
(* upload, processFile, storeFiles (api.js:43-176): one request *)

\* the uploadToS3 call of request r has settled as frame f: api.js:171-175
\* (removeFile of the source's name, return {urls}, answer ok) or
\* api.js:137-142 and 58-62 (removeFile(filename), rethrow, answer the error)
ReqAfterUpload(r, f, a) ==
    /\ a = "ok"
    /\ calls' = [calls EXCEPT ![<<"req", r>>] = f]
    /\ IF f.st = "returned" /\ ~RemoveThrows(reqs[r].filename)
       THEN /\ tmp' = removeFile(tmp, reqs[r].filename)
            /\ reqs' = [reqs EXCEPT ![r] = Answer([@ EXCEPT !.removes = @ + 1,
                                                           !.urls = f.urls],
                                                  "ok", "")]
       ELSE LET c == Caught(reqs[r], tmp, f.err) IN
            /\ tmp' = c.tmp
            /\ reqs' = [reqs EXCEPT ![r] = c.req]
    /\ UNCHANGED <<db, cron, passes, faults>>

\* the answers open to the call that a step sends: the step takes caller c's
\* frame from f to g.  A frame that settles hands over to the caller, and a
\* drain pass then sends an update to the store (api.js:204, 208); a frame
\* that moves to a new S3 call sends that call; else nothing is sent
AnswersFor(c, f, g) ==
    IF g.st # "run" THEN (IF c[1] = "pass" THEN Answers ELSE {"ok"})
    ELSE IF g.op = "abort" /\ f.op # "abort" THEN AbortAnswers
    ELSE IF g.op \in {"put", "create", "complete"} /\ (g.op # f.op \/ g.fi # f.fi)
    THEN S3Answers
    ELSE {"ok"}

\* caller c's uploadToS3 call has moved on to frame f, sending a call that
\* answers a: the call is still running, or it has settled and the caller's
\* code runs on
AfterCall(c, f, a) ==
    IF f.st = "run"
    THEN /\ calls' = [calls EXCEPT ![c] = f]
         /\ faults' = faults + Cost(a)
         /\ UNCHANGED <<db, cron, tmp, reqs, passes>>
    ELSE IF c[1] = "pass" THEN PassAfterUpload(c[2], f, a)
    ELSE ReqAfterUpload(c[2], f, a)

\* multer has stored the upload of request r in TEMP_DIR under a fresh name
\* (part_000:29,87-92); api.js:43-54 upload calls processFile
ReqReceive(r, sizes, modes) ==
    /\ reqs[r].pc = "idle"
    /\ \A q \in 1..(r - 1) : reqs[q].pc # "idle"
    /\ \E size \in sizes, async \in modes, nt \in 0..MaxTransforms :
        /\ tmp' = WriteFile(tmp, <<r>>, size)
        /\ reqs' = [reqs EXCEPT ![r] = [IdleReq EXCEPT !.pc = "process",
                                   !.path = <<r>>, !.filename = <<r>>,
                                   !.mimetype = "image/jpeg", !.format = "jpeg",
                                   !.transforms = NamedTransforms(nt),
                                   !.async = async, !.nt = nt]]
    /\ UNCHANGED <<db, cron, passes, calls, faults>>

\* api.js:130, 152-171  storeFiles(options, files, async) is called by
\* request r, whose record is req and whose files are in fs: either
\* insertAsyncUpload is sent (async) or uploadToS3 is called
StoreFiles(r, req, files, fs) ==
    IF req.async
    THEN \E a \in Answers :
         /\ tmp' = fs
         /\ db' = IF a = "ok" THEN insertAsyncUpload(db, req.options, files, r) ELSE db
         /\ reqs' = [reqs EXCEPT ![r] = [req EXCEPT !.pc = "insert", !.files = files,
                                   !.ans = a,
                                   !.stages = Append(@, "store"),
                                   !.id = IF a = "ok" THEN Len(db) + 1 ELSE 0]]
         /\ faults' = faults + Cost(a)
         /\ UNCHANGED <<cron, passes, calls>>
    ELSE \E a \in S3Answers :
         /\ reqs' = [reqs EXCEPT ![r] = [req EXCEPT !.pc = "upload", !.files = files,
                                   !.stages = Append(@, "store")]]
         /\ tmp' = fs
         /\ calls' = [calls EXCEPT ![<<"req", r>>] = StartCall(req.options, files, fs, a)]
         /\ faults' = faults + Cost(a)
         /\ UNCHANGED <<db, cron, passes>>

\* api.js:137-142, 58-62  request r, whose record is req, fails with err
\* while the files are fs
Fail(r, req, fs, err) ==
    LET c == Caught(req, fs, err) IN
    /\ tmp' = c.tmp
    /\ reqs' = [reqs EXCEPT ![r] = c.req]
    /\ UNCHANGED <<db, cron, passes, calls, faults>>

\* a variant in which the source is put in the list with the mime type of
\* the output format
ReqProcess_Reencode(r) ==
    /\ reqs[r].pc = "process"
    /\ LET req == reqs[r]
           src == File(req.path, req.filename, Lookup(req.format))
           derived == transformImage(src, req.transforms, req.format)
           fs == WriteFiles(tmp, [i \in 1..Len(derived) |-> derived[i].path], 1)
       IN IF derived # <<>> /\ req.path \notin DOMAIN tmp
          THEN Fail(r, req, tmp, "ENOENT")
          ELSE StoreFiles(r, [req EXCEPT !.renders = Rendered(<<>>, req.transforms)],
                          <<src>> \o derived, fs)

\* api.js:106-130  the transforms of request r are done: the derived files
\* are written (utils.js:45-78) and follow the source in the list of files,
\* then storeFiles is called
ReqProcess(r) ==
    /\ reqs[r].pc = "process"
    /\ LET req == reqs[r]
           src == File(req.path, req.filename, req.mimetype)
           derived == transformImage(src, req.transforms, req.format)
           fs == WriteFiles(tmp, [i \in 1..Len(derived) |-> derived[i].path], 1)
       IN IF derived # <<>> /\ req.path \notin DOMAIN tmp
          THEN Fail(r, req, tmp, "ENOENT")
          ELSE StoreFiles(r, [req EXCEPT !.renders = Rendered(<<>>, req.transforms)],
                          <<src>> \o derived, fs)

\* api.js:162-167  the insert has answered: start the cron if it is not
\* running and return {_id, ...src}; or it threw: api.js:137-142 and 58-62
ReqInserted(r) ==
    /\ reqs[r].pc = "insert"
    /\ IF reqs[r].ans = "ok"
       THEN /\ cron' = CronAfterInsert(cron)
            /\ reqs' = [reqs EXCEPT ![r] = Answer(@, "ok", "")]
            /\ tmp' = tmp
       ELSE LET c == Caught(reqs[r], tmp, "STORE_ERROR") IN
            /\ cron' = cron
            /\ tmp' = c.tmp
            /\ reqs' = [reqs EXCEPT ![r] = c.req]
    /\ UNCHANGED <<db, passes, calls, faults>>


----------------------------------------------------------------------------
(* The steps of a drain pass that follow an answer of the store *)

\* api.js:197-199, 206-208  the lock has answered: uploadToS3(options, files)
\* is called, and stats its first file; a lock that threw goes to the catch
PassLocked(p) ==
    /\ passes[p].pc = "lock"
    /\ LET pr == passes[p]
           j  == pr.pending[pr.idx]
       IN
       IF pr.ans = "throw"
       THEN \E a \in Answers :
            LET nx == MarkFailed(pr, db, "STORE_ERROR", a) IN
            /\ passes' = [passes EXCEPT ![p] = nx.pass]
            /\ db' = nx.db
            /\ faults' = faults + Cost(a)
            /\ UNCHANGED <<cron, tmp, reqs, calls>>
       ELSE LET F(a) == StartCall(db[j].options, db[j].files, tmp, a)
                pr2  == [pr EXCEPT !.pc = "upload", !.attempted = @ \cup {j}]
            IN
            IF F("ok").st = "run"
            THEN \E a \in S3Answers :
                 /\ passes' = [passes EXCEPT ![p] = pr2]
                 /\ calls' = [calls EXCEPT ![<<"pass", p>>] = F(a)]
                 /\ faults' = faults + Cost(a)
                 /\ UNCHANGED <<db, cron, tmp, reqs>>
            ELSE \E a \in Answers :
                 LET nx == MarkFailed([pr2 EXCEPT !.upfailed = @ \cup {j}],
                                      db, F("ok").err, a)
                 IN
                 /\ passes' = [passes EXCEPT ![p] = nx.pass]
                 /\ calls' = [calls EXCEPT ![<<"pass", p>>] = F("ok")]
                 /\ db' = nx.db
                 /\ faults' = faults + Cost(a)
                 /\ UNCHANGED <<cron, tmp, reqs>>

\* api.js:204-210  the success update has answered: next job; or it threw:
\* the catch marks the job failed
PassSucceeded(p) ==
    /\ passes[p].pc = "success"
    /\ \E a \in Answers :
        LET nx == IF passes[p].ans = "throw"
                  THEN MarkFailed(passes[p], db, "STORE_ERROR", a)
                  ELSE NextJob(passes[p], db, a)
        IN
        /\ passes' = [passes EXCEPT ![p] = nx.pass]
        /\ db' = nx.db
        /\ faults' = faults + Cost(a)
    /\ UNCHANGED <<cron, tmp, reqs, calls>>

\* api.js:208-210, 219  the failed update has answered: next job; or it threw
\* inside the catch: the outer catch ends the pass
PassFailed(p) ==
    /\ passes[p].pc = "failed"
    /\ IF passes[p].ans = "throw"
       THEN /\ passes' = [passes EXCEPT ![p] = OuterCatch(@)]
            /\ UNCHANGED <<db, faults>>
       ELSE \E a \in Answers :
            LET nx == NextJob(passes[p], db, a) IN
            /\ passes' = [passes EXCEPT ![p] = nx.pass]
            /\ db' = nx.db
            /\ faults' = faults + Cost(a)
    /\ UNCHANGED <<cron, tmp, reqs, calls>>

\* api.js:213-219  the count has answered: stop the cron when it is zero
PassCounted(p) ==
    /\ passes[p].pc = "count"
    /\ passes' = [passes EXCEPT ![p] = IF passes[p].ans = "throw"
                                       THEN OuterCatch(@)
                                       ELSE [@ EXCEPT !.pc = "done"]]
    /\ cron' = IF passes[p].ans = "throw" THEN cron
               ELSE CronAfterCount(cron, passes[p].n)
    /\ UNCHANGED <<db, tmp, reqs, calls, faults>>

----------------------------------------------------------------------------
(* The single PUT (aws.js:90-102) *)

\* aws.js:98-101, 70-71  PutObject has answered: the URL is pushed and the
\* loop goes on; an answer without ETag, or a throw, ends the call
PutAnswered(c) ==
    /\ calls[c].st = "run"
    /\ calls[c].op = "put"
    /\ LET f == calls[c]
           G(a) == IF f.ans = "ok"
                   THEN FileDone(f, getS3URL(f.opts, f.files[f.fi]), tmp, a)
                   ELSE FileThrew([f EXCEPT !.cur.lacked = f.ans = "missing"],
                                  IF f.ans = "missing"
                                  THEN "PUT_UPLOAD_UNEXPECTED_RESPONSE"
                                  ELSE "S3_ERROR")
       IN \E a \in AnswersFor(c, f, G("ok")) : AfterCall(c, G(a), a)

----------------------------------------------------------------------------
(* multipartUpload (aws.js:111-147) and multipartStream (aws.js:157-241) *)

\* a variant whose catch sends no AbortMultipartUpload
SendAbort_Skipped(f, a) ==
    [f EXCEPT !.op = "abort", !.ans = a, !.cur = [@ EXCEPT !.failed = TRUE]]

\* aws.js:141-146  the catch of multipartUpload: AbortMultipartUpload is
\* sent, and answers a
SendAbort(f, a) ==
    [f EXCEPT !.op = "abort", !.ans = a,
              !.cur = [@ EXCEPT !.abort = @ + 1, !.failed = TRUE,
                                !.session = IF a = "ok" /\ @ = "open" THEN "aborted" ELSE @]]

\* aws.js:129-134  the promise of multipartStream has resolved:
\* CompleteMultipartUpload is sent with the parts, and answers a.  An answer
\* without ETag stands for a completion S3 did not carry out.
SendComplete(f, a) ==
    [f EXCEPT !.op = "complete", !.ans = a,
              !.cur = [@ EXCEPT !.complete = @ + 1,
                                !.manifest = f.str.parts,
                                !.ranges = f.str.sent,
                                !.returned = f.str.returned,
                                !.session = IF a = "ok" THEN "completed" ELSE @]]

\* reject(e) of the promise of multipartStream (aws.js:167, 204, 237): only a
\* pending promise settles, and the await of aws.js:127 then throws into the
\* catch
Reject(f, a) ==
    IF f.str.promise = "pending"
    THEN SendAbort([f EXCEPT !.str.promise = "rejected"], a)
    ELSE f

\* resolve({Parts: parts}) (aws.js:232)
Resolve(f, a) ==
    IF f.str.promise = "pending"
    THEN SendComplete([f EXCEPT !.str.promise = "resolved"], a)
    ELSE f

\* a variant whose accumulator is never emptied: each part carries all the
\* bytes read so far
PartOf_Cumulative(str) == [PartNumber |-> str.partNumber, from |-> 0, len |-> str.off]

\* aws.js:179-192, 213-226  UploadPartCommand with the accumulator as body
PartOf(str) == [PartNumber |-> str.partNumber, from |-> str.off - str.acc, len |-> str.acc]

\* aws.js:116-127  CreateMultipartUpload has answered: the read stream is
\* created and multipartStream registers its handlers; an answer without
\* UploadId, or a throw, ends the call
CreateAnswered(c) ==
    /\ calls[c].st = "run"
    /\ calls[c].op = "create"
    /\ LET f == calls[c]
           g == IF f.ans = "ok"
                THEN [f EXCEPT !.op = "stream",
                               !.str = [NoStream EXCEPT !.open = TRUE,
                                                        !.promise = "pending"]]
                ELSE FileThrew([f EXCEPT !.cur.lacked = f.ans = "missing"],
                               IF f.ans = "missing"
                               THEN "MULTIPART_UPLOAD_UNEXPECTED_RESPONSE_UPLOAD_ID"
                               ELSE "S3_ERROR")
       IN \E a \in AnswersFor(c, f, g) : AfterCall(c, g, a)

\* aws.js:169-187  a data event: the chunk joins the accumulator; once the
\* accumulator is longer than chunkSize the stream is paused and the
\* accumulator is sent as a part
OnData(str, chunk, chunkSize) ==
    LET acc == (IF str.acc = -1 THEN 0 ELSE str.acc) + chunk IN
    [str EXCEPT !.off = @ + chunk, !.acc = acc,
                !.paused = ~(acc <= chunkSize)]

StreamData(c) ==
    /\ calls[c].st = "run"
    /\ LET f == calls[c] IN
       /\ f.str.open /\ ~f.str.paused /\ ~f.str.closed
       /\ f.str.off < f.cur.size
       /\ LET chunk == IF f.cur.size - f.str.off < HighWaterMark
                       THEN f.cur.size - f.str.off ELSE HighWaterMark
              str   == OnData(f.str, chunk, DEFAULT_CHUCK_SIZE)
          IN
          \E a \in S3Answers :
             /\ str.paused \/ a = "ok"
             /\ calls' = [calls EXCEPT ![c] =
                   IF str.paused
                   THEN [f EXCEPT !.str = [str EXCEPT !.dataInFlight = a,
                                                      !.sent = Append(@, PartOf(str)),
                                                      !.returned = Append(@, a)],
                                  !.cur.part = @ + 1]
                   ELSE [f EXCEPT !.str = str]]
             /\ faults' = faults + Cost(a)
    /\ UNCHANGED <<db, cron, tmp, reqs, passes>>

\* aws.js:192-205  the part sent by the data handler has answered: it joins
\* parts with the ETag of the answer and the stream is resumed; a throw
\* rejects the promise
PartAnswered(c) ==
    /\ calls[c].st = "run"
    /\ calls[c].str.dataInFlight # "none"
    /\ LET f == calls[c]
           str == f.str
           G(a) == IF str.dataInFlight = "throw"
                   THEN Reject([f EXCEPT !.str.dataInFlight = "none",
                                         !.cur.failed = TRUE], a)
                   ELSE [f EXCEPT !.cur.lacked = @ \/ str.dataInFlight = "missing",
                                  !.str =
                           [str EXCEPT !.dataInFlight = "none",
                                       !.parts = Append(@, [ETag |-> str.dataInFlight = "ok",
                                                            PartNumber |-> str.partNumber]),
                                       !.acc = -1,
                                       !.partNumber = @ + 1,
                                       !.paused = FALSE]]
       IN \E a \in AnswersFor(c, f, G("ok")) : AfterCall(c, G(a), a)

\* aws.js:208-221  the stream has delivered all its data and closes: nothing
\* when the accumulator is null, else the accumulator is sent as the last part
StreamClose(c) ==
    /\ calls[c].st = "run"
    /\ LET f == calls[c] IN
       /\ f.str.open /\ ~f.str.paused /\ ~f.str.closed
       /\ f.str.off = f.cur.size
       /\ \E a \in S3Answers :
             /\ f.str.acc # -1 \/ a = "ok"
             /\ calls' = [calls EXCEPT ![c] =
                   IF f.str.acc = -1
                   THEN [f EXCEPT !.str.closed = TRUE]
                   ELSE [f EXCEPT !.str.closed = TRUE,
                                  !.str.closeInFlight = a,
                                  !.str.sent = Append(@, PartOf(f.str)),
                                  !.str.returned = Append(@, a),
                                  !.cur.part = @ + 1]]
             /\ faults' = faults + Cost(a)
    /\ UNCHANGED <<db, cron, tmp, reqs, passes>>

\* aws.js:226-238  the last part has answered: it joins parts and the promise
\* resolves; a throw rejects the promise
LastAnswered(c) ==
    /\ calls[c].st = "run"
    /\ calls[c].str.closeInFlight # "none"
    /\ LET f == calls[c]
           str == f.str
           G(a) == IF str.closeInFlight = "throw"
                   THEN Reject([f EXCEPT !.str.closeInFlight = "none",
                                         !.cur.failed = TRUE], a)
                   ELSE Resolve([f EXCEPT !.cur.lacked = @ \/ str.closeInFlight = "missing",
                                          !.str =
                           [str EXCEPT !.closeInFlight = "none",
                                       !.parts = Append(@, [ETag |-> str.closeInFlight = "ok",
                                                            PartNumber |-> str.partNumber]),
                                       !.acc = -1]], a)
       IN \E a \in AnswersFor(c, f, G("ok")) : AfterCall(c, G(a), a)

\* aws.js:167, 208-221  the read stream fails: 'error' rejects the promise,
\* and the stream is destroyed and emits 'close', whose handler sends the
\* accumulator, if any, as a part; then the catch of multipartUpload runs
StreamError(c) ==
    /\ calls[c].st = "run"
    /\ faults < MaxFaults
    /\ LET f == calls[c] IN
       /\ f.str.open /\ ~f.str.closed
       /\ LET g == [f EXCEPT !.str.closed = TRUE,
                             !.str.closeInFlight = IF f.str.acc = -1 THEN "none" ELSE "ok",
                             !.str.sent = IF f.str.acc = -1 THEN @ ELSE Append(@, PartOf(f.str)),
                             !.str.returned = IF f.str.acc = -1 THEN @ ELSE Append(@, "ok"),
                             !.cur.part = IF f.str.acc = -1 THEN @ ELSE @ + 1,
                             !.cur.failed = TRUE]
          IN \E a \in AbortAnswers : calls' = [calls EXCEPT ![c] = Reject(g, a)]
    /\ faults' = faults + 1
    /\ UNCHANGED <<db, cron, tmp, reqs, passes>>

\* aws.js:134-139, 141-145  CompleteMultipartUpload has answered: the URL is
\* returned; an answer without ETag, or a throw, goes to the catch
CompleteAnswered(c) ==
    /\ calls[c].st = "run"
    /\ calls[c].op = "complete"
    /\ LET f == calls[c]
           G(a) == IF f.ans = "ok"
                   THEN FileDone(f, getS3URL(f.opts, f.files[f.fi]), tmp, a)
                   ELSE SendAbort([f EXCEPT !.cur.lacked = @ \/ f.ans = "missing"], a)
       IN \E a \in AnswersFor(c, f, G("ok")) : AfterCall(c, G(a), a)

\* aws.js:145-147  AbortMultipartUpload has answered: multipartUpload returns
\* nothing, and uploadToS3 pushes that; a throw of the abort ends the call
AbortAnswered(c) ==
    /\ calls[c].st = "run"
    /\ calls[c].op = "abort"
    /\ LET f == calls[c]
           G(a) == IF f.ans = "ok"
                   THEN FileDone(f, Undefined, tmp, a)
                   ELSE FileThrew(f, "S3_ERROR")
       IN \E a \in AnswersFor(c, f, G("ok")) : AfterCall(c, G(a), a)

----------------------------------------------------------------------------
(* The profiles of the collection (README "MongoDB JSON Struct"), and the
   front of the pipeline: interceptor, route, upload and processFile up to
   storeFiles *)

\* api.js:89, 93, 109  mimetype.match(/image/)
ImageTypes == {"image/jpeg", "image/tiff"}

\* api.js:111  mimetype.substring(mimetype.indexOf('/') + 1)
Subtype(m) ==
    CASE m = "image/jpeg" -> "jpeg"
      [] m = "image/tiff" -> "tiff"
      [] m = "application/pdf" -> "pdf"
      [] m = "video/mp4" -> "mp4"
      [] OTHER -> ""

\* api.js:15
SUPPORTED_OUTPUT_FORMATS == {"webp", "avif", "jpeg", "png"}

\* the constraints of an object; 0 and <<>> stand for a key that is not set,
\* a ratio 'A/B' is <<A, B>>
Constraints(width, height, minWidth, minHeight, ratio) ==
    [defined |-> TRUE, width |-> width, height |-> height,
     minWidth |-> minWidth, minHeight |-> minHeight, ratio |-> ratio]

\* an object without the key constraints
NoConstraints == [Constraints(0, 0, 0, 0, <<>>) EXCEPT !.defined = FALSE]

\* utils.js:32  the values v of 0..99 for which the double nearest to
\* (2v + 1)/20 is not below it: Number.prototype.toFixed(1) rounds such a
\* quotient up to (v + 1)/10, and the others down to v/10
RoundsUp ==
    {0, 2, 4, 5, 6, 7, 10, 12, 13, 15, 17, 18, 22, 23, 24, 27, 28, 29, 32, 33,
     34, 37, 38, 39, 41, 42, 44, 46, 47, 49, 51, 52, 54, 56, 57, 59, 61, 62,
     64, 66, 67, 69, 71, 72, 74, 76, 77, 79, 80, 81, 82, 85, 86, 87, 90, 91,
     92, 95, 96, 97}

\* a variant that cuts the quotient after its first decimal
toFixed_Truncate(a, b) == (10 * a) \div b

\* utils.js:32  (a/b).toFixed(1), as a number of tenths: the tenth nearest to
\* the double a/b; a quotient that lies halfway between two tenths is decided
\* by the side on which its double lies (quotients below 10)
toFixed(a, b) ==
    LET v == (10 * a) \div b
        rest == (10 * a) % b
    IN IF 2 * rest < b THEN v
       ELSE IF 2 * rest > b THEN v + 1
       ELSE IF v \in RoundsUp THEN v + 1 ELSE v

\* a variant that checks minWidth and minHeight as upper limits
validateImage_MinAsMax(image, options) ==
    IF options.width # 0 /\ options.width # image.width
    THEN "FILE_INVALID_WIDTH"
    ELSE IF options.height # 0 /\ options.height # image.height
    THEN "FILE_INVALID_HEIGHT"
    ELSE IF options.minWidth # 0 /\ options.minWidth < image.width
    THEN "FILE_INVALID_WIDTH"
    ELSE IF options.minHeight # 0 /\ options.minHeight < image.height
    THEN "FILE_INVALID_HEIGHT"
    ELSE IF options.ratio # <<>>
            /\ toFixed(options.ratio[1], options.ratio[2])
                  # toFixed(image.width, image.height)
    THEN "FILE_INVALID_RATIO"
    ELSE ""

\* utils.js:18-36  validateImage(path, {width, height, minWidth, minHeight,
\* ratio}): what it throws for the image at path, "" when it returns true
validateImage(image, options) ==
    IF options.width # 0 /\ options.width # image.width
    THEN "FILE_INVALID_WIDTH"
    ELSE IF options.height # 0 /\ options.height # image.height
    THEN "FILE_INVALID_HEIGHT"
    ELSE IF options.minWidth # 0 /\ options.minWidth > image.width
    THEN "FILE_INVALID_WIDTH"
    ELSE IF options.minHeight # 0 /\ options.minHeight > image.height
    THEN "FILE_INVALID_HEIGHT"
    ELSE IF options.ratio # <<>>
            /\ toFixed(options.ratio[1], options.ratio[2])
                  # toFixed(image.width, image.height)
    THEN "FILE_INVALID_RATIO"
    ELSE ""

\* utils.js:87  the defaults of the parameters maxWidth and maxHeight
maxWidth == 16
maxHeight == 16

Abs(x) == IF x < 0 THEN 0 - x ELSE x

\* utils.js:111  the images <<width, height>> (width <= height) and the
\* fractions <<j, i>> for which j/i and the ratio kept so far are at the same
\* distance of width/height and yet the comparison of the doubles is true
FloatTies ==
    {<<23, 132, 2, 11>>, <<31, 60, 8, 15>>, <<62, 120, 8, 15>>}

\* a variant that also replaces the fraction kept by one at the same distance
Closer_OrEqual(j, i, normalRatio, width, height) ==
    Abs(j * height - width * i) * normalRatio[2]
        <= Abs(normalRatio[1] * height - width * normalRatio[2]) * i

\* utils.js:109-111  Math.abs(value - absoluteRatio) <
\* Math.abs(ratio - absoluteRatio), with value = j/i and ratio the value of
\* normalRatio: the order of the two distances, or the outcome of the doubles
\* when the distances are equal
Closer(j, i, normalRatio, width, height) ==
    LET near == Abs(j * height - width * i) * normalRatio[2]
        kept == Abs(normalRatio[1] * height - width * normalRatio[2]) * i
    IN \/ near < kept
       \/ near = kept /\ <<width, height, j, i>> \in FloatTies

\* utils.js:105-118  the two loops, i outside and j inside: normalRatio
\* after the rows i..maxHeight have run
Scan(i, normalRatio, width, height) ==
    LET Pairs == (1..maxWidth) \X (1..maxHeight)
        inner[row \in 1..maxHeight, j \in 1..(maxWidth + 1), kept \in Pairs] ==
            IF j > maxWidth THEN kept
            ELSE inner[row, j + 1, IF Closer(j, row, kept, width, height)
                                   THEN <<j, row>> ELSE kept]
        outer[row \in 1..(maxHeight + 1), kept \in Pairs] ==
            IF row > maxHeight THEN kept
            ELSE outer[row + 1, inner[row, 1, kept]]
    IN outer[i, normalRatio]

\* a variant that returns the ratio of the rotated image as it is
nearestImageAspectRatio_NoReverse(width, height) ==
    IF width > height THEN Scan(1, <<1, 1>>, height, width)
    ELSE Scan(1, <<1, 1>>, width, height)

\* utils.js:87-123  nearestImageAspectRatio(path): 'A:B' as <<A, B>>
nearestImageAspectRatio(width, height) ==
    LET needsRotation == width > height
        normalRatio == IF needsRotation THEN Scan(1, <<1, 1>>, height, width)
                       ELSE Scan(1, <<1, 1>>, width, height)
    IN IF needsRotation THEN <<normalRatio[2], normalRatio[1]>>
       ELSE normalRatio

\* the transforms of an object: one without a name, then n named ones
Transforms(n) == <<[name |-> <<>>]>> \o NamedTransforms(n)

\* the objects of a profile.  avatar and video are those of the README
\* (part_006:73-119: maxAge 86400, minWidth 300, minHeight 300, ratio 3/2); scan accepts documents and TIFF images,
\* keeps the input format and sets no max-age; raw has no mimeTypes array.
\* 0 and "" stand for a key that is not set
Objects ==
    [avatar |-> [hasMimeTypes |-> TRUE, mimeTypes |-> {"image/jpeg"},
                 outputFormat |-> "webp", maxAge |-> 86400, maxage |-> 0,
                 async |-> FALSE,
                 constraints |-> Constraints(0, 0, 300, 300, <<3, 2>>),
                 bucketPath |-> <<"avatars", Slash>>,
                 transforms |-> Transforms(MaxTransforms)],
     video  |-> [hasMimeTypes |-> TRUE, mimeTypes |-> {"video/mp4"},
                 outputFormat |-> "", maxAge |-> 86400, maxage |-> 0,
                 async |-> TRUE, constraints |-> NoConstraints,
                 bucketPath |-> <<"videos", Slash>>, transforms |-> <<>>],
     scan   |-> [hasMimeTypes |-> TRUE,
                 mimeTypes |-> {"application/pdf", "image/tiff"},
                 outputFormat |-> "", maxAge |-> 0, maxage |-> 0,
                 async |-> FALSE, constraints |-> NoConstraints,
                 bucketPath |-> <<>>, transforms |-> Transforms(1)],
     raw    |-> [hasMimeTypes |-> FALSE, mimeTypes |-> {},
                 outputFormat |-> "", maxAge |-> 0, maxage |-> 0,
                 async |-> FALSE, constraints |-> NoConstraints,
                 bucketPath |-> <<>>, transforms |-> <<>>]]

\* an object that accepts JPEG images under the given constraints, stores
\* them synchronously and has no transforms
Picture(constraints) ==
    [hasMimeTypes |-> TRUE, mimeTypes |-> {"image/jpeg"},
     outputFormat |-> "", maxAge |-> 0, maxage |-> 0, async |-> FALSE,
     constraints |-> constraints, bucketPath |-> <<>>, transforms |-> <<>>]

\* the objects of the profile gallery: one for each kind of constraint, one
\* whose ratio 7/20 lies halfway between two tenths, and ones with several
\* constraints
Gallery ==
    [free   |-> Picture(NoConstraints),
     exact  |-> Picture(Constraints(300, 200, 0, 0, <<>>)),
     wide   |-> Picture(Constraints(0, 0, 300, 0, <<>>)),
     tall   |-> Picture(Constraints(0, 0, 0, 200, <<>>)),
     print  |-> Picture(Constraints(0, 0, 0, 0, <<3, 2>>)),
     strip  |-> Picture(Constraints(0, 0, 0, 0, <<7, 20>>)),
     poster |-> Picture(Constraints(300, 0, 0, 150, <<3, 2>>)),
     icon   |-> Picture(Constraints(0, 0, 4, 4, <<1, 1>>))]

\* the documents of the collection, by profile name.  default has the bucket
\* of the README (part_006:66-70); healthcare has a bucket of another region
\* and no base path; legacy sets no region and has a CDN in front
Collection ==
    [default |-> [found |-> TRUE,
                  bucket |-> [name |-> "my-bucket-name",
                              basePath |-> <<"giger">>,
                              region |-> "us-east-1", cloudfront |-> ""],
                  objects |-> Objects],
     healthcare |-> [found |-> TRUE,
                     bucket |-> [name |-> "health", basePath |-> <<>>,
                                 region |-> "eu-west-1", cloudfront |-> ""],
                     objects |-> Objects],
     legacy |-> [found |-> TRUE,
                 bucket |-> [name |-> "legacy", basePath |-> <<"files", Slash>>,
                             region |-> "", cloudfront |-> "cdn.legacy"],
                 objects |-> Objects],
     gallery |-> [found |-> TRUE,
                  bucket |-> [name |-> "gallery", basePath |-> <<>>,
                              region |-> "us-east-1", cloudfront |-> ""],
                  objects |-> Gallery]]

\* what findOne returns when no document matches
Null ==
    [found |-> FALSE,
     bucket |-> [name |-> "", basePath |-> <<>>, region |-> "", cloudfront |-> ""],
     objects |-> Objects]

\* a variant that looks the object up in the default profile, whatever the
\* profile of the request
getMeta_AnyProfile(profile, objectName) ==
    IF objectName \in DOMAIN Collection["default"].objects
    THEN Collection["default"] ELSE Null

\* mongo.js:46-53  getMeta(profile, objectName): findOne({name: profile,
\* 'objects.<objectName>': {$ne: null}})
getMeta(profile, objectName) ==
    IF profile \in DOMAIN Collection /\ objectName \in DOMAIN Collection[profile].objects
    THEN Collection[profile] ELSE Null

\* a variant that accepts every mime type that is present
MimeAccepted_Any(mimetype, objectMeta) == mimetype # ""

\* api.js:86  mimetype && objectMeta.mimeTypes.includes(mimetype)
MimeAccepted(mimetype, objectMeta) ==
    mimetype # "" /\ mimetype \in objectMeta.mimeTypes

\* utils.js:52-55  the transforms that have a name
NamedCount(transforms) ==
    Cardinality({k \in 1..Len(transforms) : transforms[k].name # <<>>})

\* api.js:119-127  the options of storeFiles: maxage is objectMeta.maxage
OptionsFor(meta, objectName) ==
    [bucketName |-> meta.bucket.name,
     basePath |-> joinPath(<<meta.bucket.basePath,
                             meta.objects[objectName].bucketPath,
                             <<objectName, "-">>>>),
     region |-> IF meta.bucket.region # "" THEN meta.bucket.region
                ELSE "us-east-1",
     cloudfront |-> meta.bucket.cloudfront,
     maxage |-> meta.objects[objectName].maxage]

RECURSIVE Substitution(_)
\* utils.js:135  String.prototype.replace reads its second argument as a
\* replacement pattern: '$$' stands for one '$' (the alphabet of the names
\* has no other character that follows '$' in a pattern)
Substitution(replacement) ==
    IF replacement = <<>> THEN <<>>
    ELSE IF Len(replacement) >= 2 /\ replacement[1] = Dollar
                                  /\ replacement[2] = Dollar
    THEN <<Dollar>> \o Substitution(SubSeq(replacement, 3, Len(replacement)))
    ELSE <<replacement[1]>> \o Substitution(Tail(replacement))

\* utils.js:135  newPath = path.replace(filename, newFilename): the entry of
\* TEMP_DIR is the file name multer chose, replaced as a whole
NewPath(path, filename, newFilename) ==
    IF path = filename THEN Substitution(newFilename) ELSE path

\* utils.js:131-140  renameFile({path, filename}, newFilename): renameSync
\* moves the entry path to newPath
renameFile(fs, path, newPath) ==
    [g \in ((DOMAIN fs) \ {path}) \cup {newPath} |->
        IF g = newPath THEN fs[path] ELSE fs[g]]

\* part_000:45  req.path.match(/health/): the path is
\* /upload/<profile>/<object>[/<tag>]
PathHasHealth(req) == req.profile = "healthcare"

\* part_000:43-77  the interceptor: 0 when it calls next(), else the status
\* it answers.  origin "bad": ALLOWED_ORIGINS is set and neither Origin nor
\* Referer parses as a URL; key "differ": API_KEY is set and X-Api-Key is not
\* equal to it
Interceptor(req) ==
    IF PathHasHealth(req) THEN 0
    ELSE IF req.origin = "bad" THEN 403
    ELSE IF req.method = "OPTIONS" THEN 200
    ELSE IF req.key = "differ" THEN 401
    ELSE 0

\* the inputs of a request
Methods == {"POST", "OPTIONS"}
Keys == {"unset", "match", "differ"}
Origins == {"ok", "bad"}
ProfileNames == {"default", "healthcare", "legacy", "other"}
ObjectNames == {"avatar", "video", "scan", "raw", "none"}
Tags == {<<>>, <<20>>, <<21, Plus, 22>>, <<Plus>>, <<Dollar, Dollar>>}
MimeTypes == {"", "image/jpeg", "image/tiff", "application/pdf", "video/mp4"}
Images == {Image(450, 300), Image(150, 100)}

\* the requests that reach the service
Inputs ==
    [methods |-> Methods, keys |-> Keys, origins |-> Origins,
     profiles |-> ProfileNames, objects |-> ObjectNames, tags |-> Tags,
     hasFile |-> BOOLEAN, mimetypes |-> MimeTypes, images |-> Images]

\* a request arrives: the interceptor (part_000:43-77), the route and multer
\* (part_000:87-92, 103; multer stores the file part in TEMP_DIR under a
\* fresh name), then upload (api.js:43-54) and processFile up to the call of
\* getMeta (api.js:78), which answers a
ReqArrive(r, inputs) ==
    /\ reqs[r].pc = "idle"
    /\ \E method \in inputs.methods, key \in inputs.keys,
          origin \in inputs.origins, profile \in inputs.profiles,
          object \in inputs.objects, tag \in inputs.tags,
          hasFile \in inputs.hasFile, mimetype \in inputs.mimetypes,
          image \in inputs.images \cup {NoImage} :
        LET req == [IdleReq EXCEPT !.method = method, !.key = key,
                                   !.origin = origin, !.profile = profile,
                                   !.object = object, !.tag = tag,
                                   !.hasFile = hasFile, !.mimetype = mimetype,
                                   !.image = image]
            gate == Interceptor(req)
        IN
        /\ hasFile \/ mimetype = ""
        /\ image = NoImage <=> mimetype \notin ImageTypes
        /\ IF gate # 0 \/ method # "POST"
           THEN /\ reqs' = [reqs EXCEPT ![r] =
                              [req EXCEPT !.pc = "done", !.result = "rejected",
                                          !.http = IF gate # 0 THEN gate ELSE 404,
                                          !.responses = 1]]
                /\ UNCHANGED <<db, cron, tmp, passes, calls, faults>>
           ELSE IF ~hasFile
           THEN /\ reqs' = [reqs EXCEPT ![r] = Answer(req, "error", "MISSING_FILE")]
                /\ UNCHANGED <<db, cron, tmp, passes, calls, faults>>
           ELSE \E a \in Answers :
                /\ tmp' = WriteFile(tmp, <<r>>, 1)
                /\ reqs' = [reqs EXCEPT ![r] =
                              [req EXCEPT !.pc = "meta", !.ans = a,
                                          !.path = <<r>>, !.filename = <<r>>,
                                          !.original = <<r>>,
                                          !.stages = <<"meta">>]]
                /\ faults' = faults + Cost(a)
                /\ UNCHANGED <<db, cron, passes, calls>>

\* the images of the gallery: every width and height up to MaxSide, and
\* sizes that meet or miss a constraint, whose ratio lies halfway between
\* two tenths, or halfway between two fractions of the search
Dims ==
    {Image(w, h) : w \in 1..MaxSide, h \in 1..MaxSide}
        \cup {Image(d[1], d[2]) : d \in
                {<<300, 200>>, <<300, 150>>, <<450, 300>>, <<150, 100>>,
                 <<298, 200>>, <<310, 200>>, <<7, 20>>, <<9, 20>>, <<3, 20>>,
                 <<30, 100>>, <<35, 100>>, <<40, 100>>, <<31, 60>>, <<60, 31>>,
                 <<23, 132>>, <<132, 23>>, <<62, 120>>, <<4000, 3000>>,
                 <<3000, 4000>>}}

\* the requests for the gallery: a JPEG for one of its objects, without tag
GalleryInputs ==
    [methods |-> {"POST"}, keys |-> {"unset"}, origins |-> {"ok"},
     profiles |-> {"gallery"}, objects |-> DOMAIN Gallery, tags |-> {<<>>},
     hasFile |-> {TRUE}, mimetypes |-> {"image/jpeg"}, images |-> Dims]

\* api.js:93-130  the nearest aspect ratio of an image, the tag rename, the
\* check of the output format, and then either the transforms (await of
\* transformImage) or storeFiles
Proceed(r, req, meta) ==
    LET o == meta.objects[req.object]
        renamed == req.tag # <<>>
        name == IF renamed THEN req.tag ELSE req.filename
        path == IF renamed THEN NewPath(req.path, req.filename, req.tag)
                ELSE req.path
        fs == IF renamed /\ req.path \in DOMAIN tmp
              THEN renameFile(tmp, req.path, path) ELSE tmp
        rq == [req EXCEPT !.filename = name, !.path = path,
                          !.ratio = IF req.mimetype \in ImageTypes
                                    THEN nearestImageAspectRatio(req.image.width,
                                                                 req.image.height)
                                    ELSE <<>>,
                          !.renames = IF renamed THEN @ + 1 ELSE @,
                          !.stages = IF renamed THEN Append(@, "rename") ELSE @,
                          !.async = o.async,
                          !.options = OptionsFor(meta, req.object)]
        transforms == req.mimetype \in ImageTypes /\ Len(o.transforms) > 0
        outputFormat == IF o.outputFormat # "" THEN o.outputFormat
                        ELSE Subtype(req.mimetype)
    IN
    IF renamed /\ req.path \notin DOMAIN tmp
    THEN Fail(r, req, tmp, "ENOENT")
    ELSE IF transforms /\ outputFormat \notin SUPPORTED_OUTPUT_FORMATS
    THEN Fail(r, rq, fs, "INVALID_OUTPUT_FORMAT")
    ELSE IF transforms
    THEN /\ reqs' = [reqs EXCEPT ![r] =
                       [rq EXCEPT !.pc = "process",
                                  !.nt = NamedCount(o.transforms),
                                  !.transforms = o.transforms,
                                  !.format = outputFormat,
                                  !.stages = Append(@, "transform")]]
         /\ tmp' = fs
         /\ UNCHANGED <<db, cron, passes, calls, faults>>
    ELSE StoreFiles(r, [rq EXCEPT !.nt = 0],
                    <<File(path, name, req.mimetype)>>, fs)

\* api.js:78-93  getMeta has answered: the checks of the metadata and of the
\* mime type, then the image is read (validateImage when the object has
\* constraints, nearestImageAspectRatio), or processFile goes on
ReqMeta(r) ==
    /\ reqs[r].pc = "meta"
    /\ LET req == reqs[r]
           meta == getMeta(req.profile, req.object)
           checked == [req EXCEPT !.stages = Append(@, "mime")]
       IN
       IF req.ans = "throw" THEN Fail(r, req, tmp, "STORE_ERROR")
       ELSE IF ~meta.found THEN Fail(r, req, tmp, "METADATA_BUCKET_OBJECT_NOT_FOUND")
       ELSE IF ~meta.objects[req.object].hasMimeTypes
       THEN Fail(r, req, tmp, "OBJECT_MIME_TYPES_NOT_DEFINED")
       ELSE IF ~MimeAccepted(req.mimetype, meta.objects[req.object])
       THEN Fail(r, checked, tmp, "FILE_NOT_SUPPORTED")
       ELSE IF req.mimetype \in ImageTypes
       THEN /\ reqs' = [reqs EXCEPT ![r] =
                          [checked EXCEPT !.pc = "inspect",
                                          !.stages = IF meta.objects[req.object].constraints.defined
                                                     THEN Append(@, "validate") ELSE @]]
            /\ UNCHANGED <<db, cron, tmp, passes, calls, faults>>
       ELSE Proceed(r, checked, meta)

\* api.js:89-96, utils.js:18-36  the image has been read: sharp throws when
\* the file is gone, a constraint that is not met throws, else processFile
\* goes on
ReqInspected(r) ==
    /\ reqs[r].pc = "inspect"
    /\ LET req == reqs[r]
           meta == getMeta(req.profile, req.object)
           constraints == meta.objects[req.object].constraints
           thrown == IF constraints.defined
                     THEN validateImage(req.image, constraints) ELSE ""
       IN
       IF req.path \notin DOMAIN tmp THEN Fail(r, req, tmp, "ENOENT")
       ELSE IF thrown # "" THEN Fail(r, req, tmp, thrown)
       ELSE Proceed(r, req, meta)

----------------------------------------------------------------------------
(* The queue: async uploads of small files, ticks and drain passes *)

SmallSizes == {1}

Init ==
    /\ db = <<>>
    /\ cron = NewCron
    /\ tmp = <<>>
    /\ reqs = [r \in 1..MaxReqs |-> IdleReq]
    /\ passes = <<>>
    /\ calls = [c \in Callers |-> IdleCall]
    /\ faults = 0

Next ==
    \/ \E r \in 1..MaxReqs : ReqReceive(r, SmallSizes, {TRUE})
    \/ \E r \in 1..MaxReqs : ReqProcess(r)
    \/ \E r \in 1..MaxReqs : ReqInserted(r)
    \/ Tick(MaxTicks)
    \/ \E p \in 1..Len(passes) : PassFetched(p)
    \/ \E p \in 1..Len(passes) : PassLocked(p)
    \/ \E p \in 1..Len(passes) : PassSucceeded(p)
    \/ \E p \in 1..Len(passes) : PassFailed(p)
    \/ \E p \in 1..Len(passes) : PassCounted(p)
    \/ \E c \in Callers : PutAnswered(c)

Spec == Init /\ [][Next]_vars


----------------------------------------------------------------------------
(* One request through the whole pipeline, with a one-byte file, and the
   cron firing once *)

NextPipeline ==
    \/ ReqArrive(1, Inputs)
    \/ ReqMeta(1)
    \/ ReqInspected(1)
    \/ ReqProcess(1)
    \/ ReqInserted(1)
    \/ Tick(1)
    \/ \E p \in 1..Len(passes) : PassFetched(p)
    \/ \E p \in 1..Len(passes) : PassLocked(p)
    \/ \E p \in 1..Len(passes) : PassSucceeded(p)
    \/ \E p \in 1..Len(passes) : PassFailed(p)
    \/ \E p \in 1..Len(passes) : PassCounted(p)
    \/ \E c \in Callers : PutAnswered(c)

PipelineSpec == Init /\ [][NextPipeline]_vars

----------------------------------------------------------------------------
(* The cleaning job (api.js:34): one request, the cron firing once, the clock
   and the sweeps of the temp directory *)

\* utils.js:178  12 hours expiry, in milliseconds
Expiry == 43200000

\* the clock advances by six hours
ClockStep == Expiry \div 2

\* utils.js:167  the length of a name multer generates (16 random bytes in
\* hexadecimal); a tag, '_' and the name of a transform count one character
\* each
MulterLength == 32

\* the characters of a name: the files of the requests and of the stored jobs
\* carry a name of multer
RECURSIVE NameLength(_)
NameLength(f) ==
    IF f = <<>> THEN 0
    ELSE (IF Head(f) \in 1..MaxReqs \/ Head(f) > 100 THEN MulterLength ELSE 1)
             + NameLength(Tail(f))

\* a variant that looks at every entry of the directory
LimboCandidates_All(fs) == DOMAIN fs

\* utils.js:167  fs.readdirSync(TEMP_DIR).filter(f => f.length >= 32)
LimboCandidates(fs) == {f \in DOMAIN fs : NameLength(f) >= MulterLength}

RECURSIVE SweepFiles(_, _)
\* utils.js:169-182  the loop over the listed files: statSync throws for a
\* file that is gone (caught), removeFile is called for a file that is at
\* least 12 hours old, and what removeFile throws is caught
SweepFiles(fs, files) ==
    IF files = {} THEN fs
    ELSE LET f == CHOOSE g \in files : TRUE IN
         SweepFiles(IF f \in DOMAIN fs /\ fs[f].age >= Expiry
                    THEN removeFile(fs, f) ELSE fs,
                    files \ {f})

\* utils.js:164-183  removeLimboFiles()
removeLimboFiles(fs) == SweepFiles(fs, LimboCandidates(fs))

\* api.js:34  the cleaning job fires
Sweep ==
    /\ cron.sweeps < MaxSweeps
    /\ tmp' = removeLimboFiles(tmp)
    /\ cron' = [cron EXCEPT !.sweeps = @ + 1]
    /\ UNCHANGED <<db, reqs, passes, calls, faults>>

\* six hours pass: every file of the temp directory grows older
Elapse ==
    /\ \E f \in DOMAIN tmp : tmp[f].age < MaxClock * ClockStep
    /\ tmp' = [f \in DOMAIN tmp |->
                 [tmp[f] EXCEPT !.age = IF @ < MaxClock * ClockStep
                                        THEN @ + ClockStep ELSE @]]
    /\ UNCHANGED <<db, cron, reqs, passes, calls, faults>>

\* the requests of this run: a JPEG for the avatar or a video for the
\* asynchronous object, with the auto-generated name or with a tag
JanitorInputs ==
    [methods |-> {"POST"}, keys |-> {"unset"}, origins |-> {"ok"},
     profiles |-> {"default"}, objects |-> {"avatar", "video"},
     tags |-> {<<>>, <<20>>}, hasFile |-> {TRUE},
     mimetypes |-> {"image/jpeg", "video/mp4"}, images |-> {Image(450, 300)}]

NextJanitor ==
    \/ ReqArrive(1, JanitorInputs)
    \/ ReqMeta(1)
    \/ ReqInspected(1)
    \/ ReqProcess(1)
    \/ ReqInserted(1)
    \/ Tick(1)
    \/ \E p \in 1..Len(passes) : PassFetched(p)
    \/ \E p \in 1..Len(passes) : PassLocked(p)
    \/ \E p \in 1..Len(passes) : PassSucceeded(p)
    \/ \E p \in 1..Len(passes) : PassFailed(p)
    \/ \E p \in 1..Len(passes) : PassCounted(p)
    \/ \E c \in Callers : PutAnswered(c)
    \/ Elapse
    \/ Sweep

JanitorSpec == Init /\ [][NextJanitor]_vars

----------------------------------------------------------------------------
(* One image sent to an object of the gallery: its constraints are checked,
   its nearest aspect ratio is computed, and it is stored *)

NextImage ==
    \/ ReqArrive(1, GalleryInputs)
    \/ ReqMeta(1)
    \/ ReqInspected(1)
    \/ \E c \in Callers : PutAnswered(c)

ImageSpec == Init /\ [][NextImage]_vars


----------------------------------------------------------------------------
(* One upload, large or small, after a restart: the collection may hold
   pending jobs of the previous run (CRON is created stopped, api.js:32), one
   request arrives, and the cron fires once. *)

\* data events that fill one part: the accumulator is sent once it is longer
\* than DEFAULT_CHUCK_SIZE (aws.js:173)
PartEvents == DEFAULT_CHUCK_SIZE \div HighWaterMark + 1

\* the sizes of the uploaded source files: the largest single PUT, the
\* smallest multipart upload, and two parts that end with a data event
\* (derived files have one byte)
UploadSizes ==
    {PutLimitBytes, PutLimitBytes + 1, 2 * PartEvents * HighWaterMark}

\* the name of the source of stored job j
StoredName(j) == <<100 + j>>

StoredConfigs ==
    UNION {[1..k -> UploadSizes \X (0..MaxTransforms)] : k \in 0..(MaxJobs - 1)}

RECURSIVE StoredFiles(_, _)
StoredFiles(cfg, j) ==
    IF j = 0 THEN <<>>
    ELSE WriteFiles(WriteFile(StoredFiles(cfg, j - 1), StoredName(j), cfg[j][1]),
                    Tail(FileList(StoredName(j), cfg[j][2])), 1)

RECURSIVE StoredJobs(_, _)
StoredJobs(cfg, j) ==
    IF j = 0 THEN <<>>
    ELSE insertAsyncUpload(StoredJobs(cfg, j - 1), Options,
                           Files(FileList(StoredName(j), cfg[j][2]), "image/jpeg"), 0)

InitUpload ==
    /\ \E cfg \in StoredConfigs :
        /\ db = StoredJobs(cfg, Len(cfg))
        /\ tmp = StoredFiles(cfg, Len(cfg))
    /\ cron = NewCron
    /\ reqs = [r \in 1..MaxReqs |-> IdleReq]
    /\ passes = <<>>
    /\ calls = [c \in Callers |-> IdleCall]
    /\ faults = 0

NextUpload ==
    \/ ReqReceive(1, UploadSizes, BOOLEAN)
    \/ ReqProcess(1)
    \/ ReqInserted(1)
    \/ Tick(1)
    \/ \E p \in 1..Len(passes) : PassFetched(p)
    \/ \E p \in 1..Len(passes) : PassLocked(p)
    \/ \E p \in 1..Len(passes) : PassSucceeded(p)
    \/ \E p \in 1..Len(passes) : PassFailed(p)
    \/ \E p \in 1..Len(passes) : PassCounted(p)
    \/ \E c \in Callers : PutAnswered(c)
    \/ \E c \in Callers : CreateAnswered(c)
    \/ \E c \in Callers : StreamData(c)
    \/ \E c \in Callers : PartAnswered(c)
    \/ \E c \in Callers : StreamClose(c)
    \/ \E c \in Callers : LastAnswered(c)
    \/ \E c \in Callers : StreamError(c)
    \/ \E c \in Callers : CompleteAnswered(c)
    \/ \E c \in Callers : AbortAnswered(c)

UploadSpec == InitUpload /\ [][NextUpload]_vars


----------------------------------------------------------------------------
(* Properties of the queue, checked under Spec *)

\* C1: a job is inserted with status pending, and afterwards its status
\* changes only pending -> uploading, uploading -> success or
\* uploading -> failed; a job that is success or failed keeps its status,
\* whatever the interleaving of requests, ticks and drain passes (stated for
\* the runs in which no call to the store or to S3 fails).
C1_StatusTransitions ==
    [][faults' = 0 =>
        \A j \in 1..Len(db') :
          IF j > Len(db) THEN db'[j].status = "pending"
          ELSE \/ db'[j].status = db[j].status
               \/ <<db[j].status, db'[j].status>> \in
                     {<<"pending", "uploading">>, <<"uploading", "success">>,
                      <<"uploading", "failed">>}]_vars

\* C2: an async request inserts exactly one job, pending at its insertion,
\* that carries the options and the full file list (source and derived
\* files); it answers with the id of that job, makes no storage call and
\* removes no temp file.
C2_AsyncEnqueue ==
    /\ [](\A r \in 1..MaxReqs :
            reqs[r].async /\ reqs[r].pc \in {"insert", "done"} =>
               /\ calls[<<"req", r>>] = IdleCall
               /\ reqs[r].ans = "ok" =>
                    /\ reqs[r].removes = 0
                    /\ Cardinality({j \in 1..Len(db) : db[j].by = r}) = 1
                    /\ reqs[r].id \in 1..Len(db)
                    /\ db[reqs[r].id].by = r
                    /\ db[reqs[r].id].options = Options
                    /\ db[reqs[r].id].files =
                          Files(FileList(reqs[r].filename, reqs[r].nt), reqs[r].mimetype)
                    /\ reqs[r].pc = "done" => reqs[r].result = "ok")
    /\ [][\A r \in 1..MaxReqs :
            reqs[r].pc = "process" /\ reqs'[r].pc = "insert" /\ reqs'[r].ans = "ok" =>
               /\ Len(db') = Len(db) + 1
               /\ db'[Len(db')].status = "pending"
               /\ \A j \in 1..Len(db) : db'[j] = db[j]]_vars

\* an async request of a source with a derived file has been answered with
\* the id of its job, which is still pending
C2_Witness ==
    \E r \in 1..MaxReqs :
        /\ reqs[r].async /\ reqs[r].pc = "done" /\ reqs[r].result = "ok"
        /\ reqs[r].nt = MaxTransforms
        /\ db[reqs[r].id].status = "pending"
        /\ Len(db[reqs[r].id].files) = 1 + MaxTransforms

\* C3: every enqueued job ends as success with one URL per file and its temp
\* files removed when no call fails: once the scheduler is stopped, every
\* drain pass has ended and every request is answered, no job is left in
\* another state.
C3_EnqueuedJobsSucceed ==
    (/\ faults = 0
     /\ ~cron.running
     /\ \A p \in 1..Len(passes) : passes[p].pc = "done"
     /\ \A r \in 1..MaxReqs : reqs[r].pc \in {"idle", "done"})
    => \A j \in 1..Len(db) :
          /\ db[j].status = "success"
          /\ Len(db[j].urls) = Len(db[j].files)
          /\ \A i \in 1..Len(db[j].files) : db[j].files[i].path \notin DOMAIN tmp

C5_NoPendingAfterPass ==
    \A p \in 1..Len(passes) :
        passes[p].drained =>
            \A i \in 1..Len(passes[p].pending) :
                db[passes[p].pending[i]].status # "pending"

\* a drain pass has gone through two jobs, and the upload of one has failed
C5_Witness ==
    \E p \in 1..Len(passes) :
        /\ passes[p].drained
        /\ Len(passes[p].pending) = 2
        /\ passes[p].upfailed # {}

----------------------------------------------------------------------------
(* Properties of the uploads, checked under UploadSpec *)

\* C6: the jobs of a drain pass are handled independently: a job whose upload
\* had a failure is marked failed with the error text, never success, and a
\* pass that has gone through its jobs has marked each of them uploading,
\* called uploadToS3 for it and moved it to success or failed (stated for the
\* passes in which no update of the store threw).
C6_JobsIndependent ==
    \A p \in 1..Len(passes) :
        ~passes[p].storeThrew =>
            /\ \A j \in passes[p].upfailed :
                  /\ <<j, "failed">> \in passes[p].wrote
                  /\ <<j, "success">> \notin passes[p].wrote
                  /\ db[j].status = "failed"
                  /\ db[j].error # ""
            /\ passes[p].drained =>
                  \A i \in 1..Len(passes[p].pending) :
                      /\ passes[p].pending[i] \in passes[p].locked
                      /\ passes[p].pending[i] \in passes[p].attempted
                      /\ \E st \in {"success", "failed"} :
                            <<passes[p].pending[i], st>> \in passes[p].wrote

\* C7: when a step of a multipart upload has failed, uploadToS3 rejects: the
\* call does not go on to the next file and returns no URL list, and a sync
\* request answers with an error.
C7_MultipartFailureRejects ==
    /\ \A c \in Callers : \A i \in 1..Len(calls[c].log) :
          calls[c].log[i].failed => calls[c].st = "threw"
    /\ \A r \in 1..MaxReqs :
          (/\ reqs[r].pc = "done" /\ ~reqs[r].async
           /\ \E i \in 1..Len(calls[<<"req", r>>].log) : calls[<<"req", r>>].log[i].failed)
          => reqs[r].result = "error"

\* C8: when multipartUpload has settled, the session it opened is completed
\* or an abort has been sent for it, never both and never neither: a failure
\* after the session was opened sends exactly one abort, and no abort is sent
\* for a session whose completion succeeded.  The session is left open only
\* by an abort that itself threw, which ends the call.
C8_SessionCompletedOrAborted ==
    \A c \in Callers : \A i \in 1..Len(calls[c].log) :
        LET e == calls[c].log[i] IN
        e.session # "none" =>
            /\ (e.session = "completed") # (e.abort >= 1)
            /\ e.abort <= 1
            /\ e.failed => e.abort = 1
            /\ e.session = "completed" => e.complete = 1 /\ e.abort = 0 /\ ~e.failed
            /\ e.session = "open" =>
                  e.abort = 1 /\ calls[c].st = "threw" /\ i = Len(calls[c].log)

\* a multipart upload that had sent a part has failed, and its session has
\* been aborted
C8_Witness ==
    \E c \in Callers : \E i \in 1..Len(calls[c].log) :
        /\ calls[c].log[i].session = "aborted"
        /\ calls[c].log[i].part >= 1
        /\ calls[c].log[i].abort = 1

\* C9: when no call fails, a multipart upload whose stream has closed, with
\* no part in flight, has settled the promise of its stream: the session is
\* being completed (or aborted), also when the last data event had sent all
\* the bytes that were left.
C9_MultipartSettles ==
    \A c \in Callers :
        (/\ faults = 0
         /\ calls[c].st = "run"
         /\ calls[c].str.open /\ calls[c].str.closed
         /\ calls[c].str.dataInFlight = "none"
         /\ calls[c].str.closeInFlight = "none")
        => calls[c].str.promise # "pending"

\* C10: for each file uploadToS3 sends exactly one PutObject and no multipart
\* call when the size is at most 100 MiB, and no PutObject but one multipart
\* sequence (one create, the parts, at most one complete, which carries every
\* part sent) when the size is above; a URL is returned for a large file only
\* after its completion.
C10_PutOrMultipart ==
    \A c \in Callers :
        LET f == calls[c]
            entries == {f.log[i] : i \in 1..Len(f.log)}
                         \cup (IF f.st = "run" THEN {f.cur} ELSE {})
        IN
        /\ \A e \in entries :
              IF e.size <= PutLimitBytes
              THEN /\ e.put = 1
                   /\ e.create = 0 /\ e.part = 0 /\ e.complete = 0 /\ e.abort = 0
              ELSE /\ e.put = 0
                   /\ e.create = 1
                   /\ e.complete <= 1
                   /\ e.complete = 1 => e.part >= 1 /\ Len(e.manifest) = e.part
        /\ \A i \in 1..Len(f.urls) :
              f.urls[i].defined /\ f.log[i].size > PutLimitBytes =>
                  f.log[i].complete = 1 /\ f.log[i].session = "completed"

\* one call has uploaded a source above 100 MiB in two parts and its derived
\* file in one PutObject
C10_Witness ==
    \E c \in Callers :
        /\ calls[c].st = "returned"
        /\ Len(calls[c].log) = 2
        /\ calls[c].log[1].size > PutLimitBytes
        /\ calls[c].log[1].session = "completed"
        /\ calls[c].log[1].part = 2
        /\ calls[c].log[2].size <= PutLimitBytes
        /\ calls[c].log[2].put = 1

\* C11: the manifest passed to CompleteMultipartUpload lists the part numbers
\* 1..n in ascending order, each with the ETag S3 returned for that part; the
\* parts are consecutive ranges of the file that do not overlap, and their
\* lengths add up to the size of the file.
C11_ManifestCoversFile ==
    \A c \in Callers :
        LET f == calls[c]
            entries == {f.log[i] : i \in 1..Len(f.log)}
                         \cup (IF f.st = "run" THEN {f.cur} ELSE {})
        IN
        \A e \in entries :
            e.complete = 1 =>
                /\ Len(e.manifest) >= 1
                /\ Len(e.ranges) = Len(e.manifest)
                /\ Len(e.returned) = Len(e.manifest)
                /\ \A k \in 1..Len(e.manifest) :
                      /\ e.manifest[k].PartNumber = k
                      /\ e.ranges[k].PartNumber = k
                      /\ e.manifest[k].ETag = (e.returned[k] = "ok")
                      /\ e.ranges[k].len > 0
                      /\ e.ranges[k].from =
                            IF k = 1 THEN 0
                            ELSE e.ranges[k - 1].from + e.ranges[k - 1].len
                /\ e.ranges[Len(e.ranges)].from + e.ranges[Len(e.ranges)].len = e.size

\* a multipart upload of two parts has been completed
C11_Witness ==
    \E c \in Callers : \E i \in 1..Len(calls[c].log) :
        /\ calls[c].log[i].session = "completed"
        /\ Len(calls[c].log[i].manifest) = 2
        /\ calls[c].log[i].ranges[2].from > DEFAULT_CHUCK_SIZE

\* C12: within one multipart upload at most one UploadPart call is in flight:
\* while the part sent by the data handler is in flight, the close handler
\* sends no other part.
C12_OnePartInFlight ==
    \A c \in Callers :
        ~(calls[c].str.dataInFlight # "none" /\ calls[c].str.closeInFlight # "none")

\* C13: a response without UploadId or ETag makes the upload fail with an
\* error that reaches the caller of uploadToS3, an abort being sent for the
\* session if one is open; and no part without ETag is in a manifest passed
\* to CompleteMultipartUpload.
C13_MissingIdOrTag ==
    \A c \in Callers :
        LET f == calls[c]
            entries == {f.log[i] : i \in 1..Len(f.log)}
                         \cup (IF f.st = "run" THEN {f.cur} ELSE {})
        IN
        /\ \A e \in entries : \A k \in 1..Len(e.manifest) : e.manifest[k].ETag
        /\ \A i \in 1..Len(f.log) :
              f.log[i].lacked =>
                  /\ f.st = "threw"
                  /\ f.log[i].session # "none" => f.log[i].abort = 1

\* C14: a synchronous upload answered ok returns one URL per file (the
\* source first, then one per named transform, in order), each being the
\* storage URL of that file, and every one of these files has been delivered
\* to the storage (a PutObject answered with an ETag, or a multipart session
\* completed).
C14_SyncUrls ==
    \A r \in 1..MaxReqs :
        (reqs[r].pc = "done" /\ ~reqs[r].async /\ reqs[r].result = "ok") =>
            LET f == calls[<<"req", r>>]
                files == FileList(reqs[r].filename, reqs[r].nt)
            IN
            /\ Len(reqs[r].urls) = 1 + reqs[r].nt
            /\ Len(f.log) = Len(files)
            /\ \A i \in 1..Len(files) :
                  /\ reqs[r].urls[i] = getS3URL(f.opts, f.files[i])
                  /\ f.files[i].filename = files[i]
                  /\ \/ f.log[i].put = 1 /\ ~f.log[i].lacked /\ ~f.log[i].failed
                     \/ f.log[i].session = "completed"

\* C15: when a synchronous request has ended, with success or with an error
\* raised after its file was stored in the temp directory, no temp file of
\* the request remains: neither the source, under the name multer gave it or
\* under its tag, nor a derived file.
C15_NoTempFileLeft ==
    \A r \in 1..MaxReqs :
        LET req == reqs[r]
            own == {req.original, req.filename}
                     \cup {DerivedName(req.filename, k) : k \in 1..MaxTransforms}
        IN
        (req.pc = "done" /\ req.original # <<>> /\ (req.result = "error" \/ ~req.async))
            => own \cap DOMAIN tmp = {}

\* C16: a request whose file has no mime type, or one that is not in the
\* mimeTypes of its object, fails with FILE_NOT_SUPPORTED once the metadata
\* has been read: its file is never renamed, no derived file is written, no
\* storage call is made and no job is inserted for it, and when it has ended
\* no temp file of it is left.
C16_UnsupportedMime ==
    \A r \in 1..MaxReqs :
        LET req == reqs[r] IN
        (/\ req.original # <<>>
         /\ req.profile \in DOMAIN Collection
         /\ req.object \in DOMAIN Objects
         /\ Objects[req.object].hasMimeTypes
         /\ (req.mimetype = "" \/ req.mimetype \notin Objects[req.object].mimeTypes))
        =>
            /\ req.renames = 0
            /\ req.filename = req.original
            /\ \A k \in 1..(MaxTransforms + 1) :
                   DerivedName(req.original, k) \notin DOMAIN tmp
            /\ calls[<<"req", r>>].st = "idle"
            /\ \A j \in 1..Len(db) : db[j].by # r
            /\ req.pc \in {"meta", "done"}
            /\ req.pc = "done" =>
                  /\ req.result = "error"
                  /\ req.ans = "ok" => req.error = "FILE_NOT_SUPPORTED"
                  /\ req.original \notin DOMAIN tmp

\* a request with a tag for an object that does not accept its mime type has
\* been answered FILE_NOT_SUPPORTED
C16_Witness ==
    \E r \in 1..MaxReqs :
        /\ reqs[r].pc = "done"
        /\ reqs[r].error = "FILE_NOT_SUPPORTED"
        /\ reqs[r].mimetype = "application/pdf"
        /\ reqs[r].object = "avatar"
        /\ reqs[r].tag # <<>>
        /\ reqs[r].removes = 1

\* C17: the stages of a request run at most once each and in the order
\* metadata lookup, mime check, constraint validation, tag rename, transform,
\* deliver-or-enqueue, response; a side effect is there only if its stage has
\* run, a stage that fails is followed by the response alone, and a request
\* for an unknown profile or object renames nothing, writes no derived file,
\* makes no storage call and inserts no job.
C17_StagesInOrder ==
    \A r \in 1..MaxReqs :
        LET req == reqs[r]
            order == <<"meta", "mime", "validate", "rename", "transform",
                       "store", "response">>
            Rank(x) == CHOOSE i \in 1..Len(order) : order[i] = x
            ran(x) == \E i \in 1..Len(req.stages) : req.stages[i] = x
            last == IF Len(req.stages) >= 2
                    THEN req.stages[Len(req.stages) - 1] ELSE "none"
            unknown == \/ req.profile \notin DOMAIN Collection
                       \/ req.object \notin DOMAIN Objects
        IN
        /\ \A i \in 1..Len(req.stages) : req.stages[i] \in {order[k] : k \in 1..Len(order)}
        /\ \A i, j \in 1..Len(req.stages) :
              i < j => Rank(req.stages[i]) < Rank(req.stages[j])
        /\ ~ran("rename") => (req.renames = 0 /\ req.filename \in {<<>>, req.original})
        /\ ran("rename") => req.renames = 1
        /\ ~ran("transform") =>
              \A k \in 1..(MaxTransforms + 1) :
                  /\ DerivedName(req.filename, k) \notin DOMAIN tmp
                  /\ DerivedName(req.original, k) \notin DOMAIN tmp
        /\ ~ran("store") =>
              /\ calls[<<"req", r>>].st = "idle"
              /\ \A j \in 1..Len(db) : db[j].by # r
        /\ ran("response") <=> (req.pc = "done" /\ req.result \in {"ok", "error"})
        /\ req.error = "METADATA_BUCKET_OBJECT_NOT_FOUND" => last = "meta"
        /\ req.error = "OBJECT_MIME_TYPES_NOT_DEFINED" => last = "meta"
        /\ req.error = "FILE_NOT_SUPPORTED" => last = "mime"
        /\ req.error = "FILE_INVALID_WIDTH" => last = "validate"
        /\ req.error = "INVALID_OUTPUT_FORMAT" => last \in {"mime", "rename"}
        /\ (unknown /\ req.original # <<>>) =>
              /\ ~ran("mime") /\ ~ran("rename") /\ ~ran("transform") /\ ~ran("store")
              /\ (req.pc = "done" /\ req.ans = "ok") =>
                    req.error = "METADATA_BUCKET_OBJECT_NOT_FOUND"

\* a request with a tag and an image, for a profile that does not exist, has
\* been answered after the metadata lookup alone
C17_Witness ==
    \E r \in 1..MaxReqs :
        /\ reqs[r].pc = "done"
        /\ reqs[r].profile = "other"
        /\ reqs[r].object = "avatar"
        /\ reqs[r].mimetype = "image/jpeg"
        /\ reqs[r].tag # <<>>
        /\ reqs[r].stages = <<"meta", "response">>
        /\ reqs[r].error = "METADATA_BUCKET_OBJECT_NOT_FOUND"

\* C18: when API_KEY is set, a POST to an upload route whose X-Api-Key is not
\* equal to it is answered 401, for every profile, object and tag: no file
\* is stored by the upload middleware and upload is not called.
C18_KeyRequired ==
    \A r \in 1..MaxReqs :
        (/\ reqs[r].pc # "idle"
         /\ reqs[r].method = "POST"
         /\ reqs[r].origin = "ok"
         /\ reqs[r].key = "differ")
        =>
            /\ reqs[r].pc = "done"
            /\ reqs[r].http = 401
            /\ reqs[r].original = <<>>
            /\ reqs[r].stages = <<>>

\* C19: a request that upload handles gets exactly one response; when an
\* exception was raised while handling it (by the checks of upload and
\* processFile, by the store, by the storage or by removeFile) that response
\* is the 418 one with status 'error' and the error as a string, and an ok
\* response is sent only when no call of the request threw; and no exception
\* leaves a drain pass: a pass whose store call threw still returns.
C19_ExceptionsAnswered ==
    /\ \A r \in 1..MaxReqs :
          LET req == reqs[r]
              f == calls[<<"req", r>>]
          IN
          /\ req.responses <= 1
          /\ req.pc = "done" <=> req.responses = 1
          /\ (req.pc = "done" /\ req.result = "error") =>
                (req.http = 418 /\ req.error # "")
          /\ (req.pc = "done" /\ req.result = "ok") =>
                /\ req.http = 200 /\ req.error = ""
                /\ f.st \in {"idle", "returned"}
                /\ ~RemoveThrows(req.filename) \/ req.async
                /\ req.async => \E j \in 1..Len(db) : db[j].by = r
          /\ (req.pc = "done" /\ f.st = "threw") =>
                (req.result = "error" /\ req.error \in {f.err, "SyntaxError"})
    /\ \A p \in 1..Len(passes) :
          /\ passes[p].pc # "crashed"
          /\ (passes[p].pc = "done" /\ ~passes[p].drained) => passes[p].ans = "throw"

\* a request whose PutObject threw has been answered with the error
C19_Witness ==
    \E r \in 1..MaxReqs :
        /\ reqs[r].pc = "done"
        /\ calls[<<"req", r>>].st = "threw"
        /\ reqs[r].error = "S3_ERROR"
        /\ reqs[r].http = 418
        /\ reqs[r].responses = 1

\* C20: every object delivered for a request is sent with Cache-Control
\* max-age=<maxAge of its object> when the object sets maxAge, and with
\* max-age=31536000 (one year) otherwise.
C20_CacheControl ==
    \A c \in Callers :
        LET f == calls[c]
            r == IF c[1] = "req" THEN c[2]
                 ELSE IF f.st = "idle" THEN 0
                 ELSE db[passes[c[2]].pending[passes[c[2]].idx]].by
        IN
        (/\ r \in 1..MaxReqs
         /\ reqs[r].object \in DOMAIN Objects
         /\ \E i \in 1..Len(f.urls) : f.urls[i].defined)
        =>
            f.cache = IF Objects[reqs[r].object].maxAge # 0
                      THEN Objects[reqs[r].object].maxAge
                      ELSE 31536000

----------------------------------------------------------------------------
(* Output format, transforms and the tag *)

\* the named entries of a list of transforms, in list order
Named(transforms) == SelectSeq(transforms, LAMBDA t : t.name # <<>>)

\* C21: with a non-empty list of transforms on an image, every derived file
\* is encoded in the outputFormat of the object when it is set to one of webp,
\* avif, jpeg, png, and in the format of the source image when it is not set;
\* the request fails with INVALID_OUTPUT_FORMAT only when an outputFormat is
\* configured and is not one of the four.
C21_OutputFormat ==
    \A r \in 1..MaxReqs :
        /\ reqs[r].error = "INVALID_OUTPUT_FORMAT" =>
              LET o == Objects[reqs[r].object] IN
              o.outputFormat # "" /\ o.outputFormat \notin SUPPORTED_OUTPUT_FORMATS
        /\ (reqs[r].pc = "upload" /\ reqs[r].mimetype \in ImageTypes
                /\ Len(Objects[reqs[r].object].transforms) > 0) =>
              LET o == Objects[reqs[r].object] IN
              \A i \in 2..Len(reqs[r].files) :
                  reqs[r].files[i].mimetype =
                      IF o.outputFormat \in SUPPORTED_OUTPUT_FORMATS
                      THEN Lookup(o.outputFormat) ELSE reqs[r].mimetype

\* C22 as stated: in a synchronous upload of an image with outputFormat set
\* and at least one transform, the first object delivered (the source) has
\* the content type and the key extension of outputFormat.
C22_SourceReencoded ==
    \A r \in 1..MaxReqs :
        LET req == reqs[r]
            f == calls[<<"req", r>>]
        IN
        (/\ req.pc \in {"upload", "done"} /\ ~req.async
         /\ req.mimetype \in ImageTypes /\ req.object \in DOMAIN Objects
         /\ Objects[req.object].outputFormat # ""
         /\ Len(Named(Objects[req.object].transforms)) >= 1
         /\ Len(f.urls) >= 1 /\ f.urls[1].defined)
        =>
            /\ f.files[1].mimetype = Lookup(Objects[req.object].outputFormat)
            /\ f.urls[1].key.ext = Extension(Lookup(Objects[req.object].outputFormat))

\* C22 (amended): in a synchronous upload of an image with outputFormat set
\* and at least one transform, the first object delivered is the source as
\* it was uploaded, with the content type and the key extension of its own
\* mime type; every derived variant delivered after it has the content type
\* and the key extension of outputFormat.
C22_SourceKeepsType ==
    \A r \in 1..MaxReqs :
        LET req == reqs[r]
            f == calls[<<"req", r>>]
        IN
        (/\ req.pc \in {"upload", "done"} /\ ~req.async
         /\ req.mimetype \in ImageTypes /\ req.object \in DOMAIN Objects
         /\ Objects[req.object].outputFormat # ""
         /\ Len(Named(Objects[req.object].transforms)) >= 1
         /\ Len(f.urls) >= 1 /\ f.urls[1].defined)
        =>
            /\ f.files[1].mimetype = req.mimetype
            /\ f.urls[1].key.ext = Extension(req.mimetype)
            /\ \A i \in 2..Len(f.urls) :
                  f.urls[i].defined =>
                      /\ f.files[i].mimetype = Lookup(Objects[req.object].outputFormat)
                      /\ f.urls[i].key.ext =
                            Extension(Lookup(Objects[req.object].outputFormat))

\* a JPEG source and all its WebP variants have been delivered
C22_Witness ==
    LET f == calls[<<"req", 1>>] IN
    /\ reqs[1].pc = "done" /\ reqs[1].result = "ok"
    /\ reqs[1].object = "avatar" /\ reqs[1].mimetype = "image/jpeg"
    /\ Len(f.urls) = 1 + MaxTransforms
    /\ \A i \in 1..Len(f.urls) : f.urls[i].defined
    /\ f.urls[1].key.ext = "jpeg" /\ f.urls[2].key.ext = "webp"

C24_TagRename ==
    \A r \in 1..MaxReqs :
        LET req == reqs[r] IN
        (req.pc \in {"process", "upload", "insert"}) =>
            IF req.tag # <<>>
            THEN /\ req.renames = 1
                 /\ req.filename = req.tag /\ req.path = req.tag
                 /\ req.original \notin DOMAIN tmp
                 /\ req.pc = "process" =>
                       /\ req.tag \in DOMAIN tmp
                       /\ \A g \in DOMAIN tmp :
                             \A i \in 1..Len(g) : g[i] # Underscore
                 /\ \A i \in 1..Len(req.files) :
                       /\ SubSeq(req.files[i].filename, 1, Len(req.tag)) = req.tag
                       /\ i > 1 => req.files[i].filename =
                              req.tag \o <<Underscore>> \o
                                  Named(req.transforms)[i - 1].name
                 /\ \A i \in 1..Len(calls[<<"req", r>>].urls) :
                       calls[<<"req", r>>].urls[i].defined =>
                          SubSeq(calls[<<"req", r>>].urls[i].key.name,
                                 1, Len(req.tag)) = req.tag
            ELSE /\ req.renames = 0
                 /\ req.filename = req.original /\ req.path = req.original

----------------------------------------------------------------------------
(* Image constraints and the nearest aspect ratio *)

\* validateImage has run for the request
Validated(req) ==
    /\ req.pc # "inspect"
    /\ \E i \in 1..Len(req.stages) : req.stages[i] = "validate"

\* the constraints of the object of a request
ConstraintsOf(req) ==
    getMeta(req.profile, req.object).objects[req.object].constraints

\* a/b rounded to one decimal, in tenths: the tenth nearest to a/b, and for
\* a quotient halfway between two tenths the one its decimal text shows
NearestTenth(a, b) ==
    CHOOSE n \in 0..(((10 * a) \div b) + 1) :
        \/ 2 * Abs(10 * a - n * b) < b
        \/ /\ 2 * Abs(10 * a - n * b) = b
           /\ n = ((10 * a) \div b) + (IF ((10 * a) \div b) \in RoundsUp THEN 1 ELSE 0)

WidthHolds(c, image) ==
    /\ c.width # 0 => c.width = image.width
    /\ c.minWidth # 0 => c.minWidth <= image.width

HeightHolds(c, image) ==
    /\ c.height # 0 => c.height = image.height
    /\ c.minHeight # 0 => c.minHeight <= image.height

RatioHolds(c, image) ==
    c.ratio # <<>> =>
        NearestTenth(c.ratio[1], c.ratio[2]) = NearestTenth(image.width, image.height)

InvalidImage == {"FILE_INVALID_WIDTH", "FILE_INVALID_HEIGHT", "FILE_INVALID_RATIO"}

\* C25: validateImage succeeds exactly when every constraint that is set
\* holds (width and height equal, minWidth <= width, minHeight <= height,
\* ratio matching); a width or minWidth that fails gives FILE_INVALID_WIDTH,
\* a height or minHeight FILE_INVALID_HEIGHT, a ratio FILE_INVALID_RATIO, and
\* processFile answers the request with that error as it is.
C25_ValidateImage ==
    \A r \in 1..MaxReqs :
        LET req == reqs[r] IN
        Validated(req) =>
            LET c == ConstraintsOf(req) IN
            /\ req.error \in InvalidImage <=>
                  ~(WidthHolds(c, req.image) /\ HeightHolds(c, req.image)
                        /\ RatioHolds(c, req.image))
            /\ req.error = "FILE_INVALID_WIDTH" => ~WidthHolds(c, req.image)
            /\ req.error = "FILE_INVALID_HEIGHT" => ~HeightHolds(c, req.image)
            /\ req.error = "FILE_INVALID_RATIO" => ~RatioHolds(c, req.image)
            /\ req.error \in InvalidImage =>
                  /\ req.pc = "done" /\ req.result = "error"
                  /\ req.http = 418 /\ req.responses = 1

\* an image wide enough whose height and ratio both fail is refused for its
\* height
C25_Witness ==
    /\ reqs[1].object = "icon" /\ reqs[1].image = Image(5, 3)
    /\ reqs[1].pc = "done" /\ reqs[1].error = "FILE_INVALID_HEIGHT"

\* C26: a ratio constraint 'A/B' accepts an image exactly when A/B rounded
\* to one decimal equals width/height rounded to one decimal; 3/2 accepts
\* 300x200 and refuses 300x150 with FILE_INVALID_RATIO.
C26_RatioRounding ==
    \A r \in 1..MaxReqs :
        LET req == reqs[r] IN
        (Validated(req) /\ ConstraintsOf(req).ratio # <<>>
            /\ WidthHolds(ConstraintsOf(req), req.image)
            /\ HeightHolds(ConstraintsOf(req), req.image)) =>
            LET ratio == ConstraintsOf(req).ratio IN
            /\ req.error = "FILE_INVALID_RATIO" <=>
                  NearestTenth(ratio[1], ratio[2])
                      # NearestTenth(req.image.width, req.image.height)
            /\ req.error # "FILE_INVALID_RATIO" => req.error \notin InvalidImage
            /\ (ratio = <<3, 2>> /\ req.image = Image(300, 200)) =>
                  req.error \notin InvalidImage
            /\ (ratio = <<3, 2>> /\ req.image = Image(300, 150)) =>
                  req.error = "FILE_INVALID_RATIO"

\* the ratio 3/2 has refused an image of 300x150
C26_Witness ==
    /\ reqs[1].object = "print" /\ reqs[1].image = Image(300, 150)
    /\ reqs[1].pc = "done" /\ reqs[1].error = "FILE_INVALID_RATIO"

\* C27: the nearest aspect ratio of an image of W x H is 'A:B' exactly when
\* that of an image of H x W is 'B:A'.
C27_RotationSymmetry ==
    \A r \in 1..MaxReqs :
        reqs[r].ratio # <<>> =>
            LET turned == nearestImageAspectRatio(reqs[r].image.height,
                                                  reqs[r].image.width)
            IN reqs[r].ratio = <<turned[2], turned[1]>>

\* the ratio of an image that is wider than high has been computed
C27_Witness ==
    /\ reqs[1].image = Image(60, 31)
    /\ reqs[1].ratio = <<15, 8>>

\* C28: for width <= height (after the rotation) the search returns <<j, i>>
\* with 1 <= j, i <= 16 whose quotient j/i is at the smallest distance of
\* width/height, and among the fractions at that distance the first the scan
\* meets (i in the outer loop, j in the inner one: the lower i wins).
C28_NearestFraction ==
    \A r \in 1..MaxReqs :
        reqs[r].ratio # <<>> =>
            LET rotated == reqs[r].image.width > reqs[r].image.height
                w == IF rotated THEN reqs[r].image.height ELSE reqs[r].image.width
                h == IF rotated THEN reqs[r].image.width ELSE reqs[r].image.height
                j == IF rotated THEN reqs[r].ratio[2] ELSE reqs[r].ratio[1]
                i == IF rotated THEN reqs[r].ratio[1] ELSE reqs[r].ratio[2]
            IN
            /\ j \in 1..maxWidth /\ i \in 1..maxHeight
            /\ \A jj \in 1..maxWidth, ii \in 1..maxHeight :
                  LET found == Abs(j * h - w * i) * ii
                      other == Abs(jj * h - w * ii) * i
                  IN /\ found <= other
                     /\ found = other => (ii > i \/ (ii = i /\ jj >= j))

----------------------------------------------------------------------------
(* The cleaning job and the storage URLs *)

\* C29: after each sweep of the cleaning job no file remains in the temp
\* directory whose modification age is 12 hours or more, whatever its name
\* (auto-generated or given by a tag, source or derived) and whatever the
\* status of a job that refers to it.
C29_NoLimboAfterSweep ==
    [][cron'.sweeps # cron.sweeps =>
          \A f \in DOMAIN tmp' : tmp'[f].age < Expiry]_vars

\* C30: the URL of a stored file is https://{bucket}.s3.amazonaws.com/{key}
\* when the region of the profile is us-east-1 or is not set, and
\* https://{bucket}.s3.{region}.amazonaws.com/{key} otherwise; the key is
\* the base path of the bucket, the bucketPath of the object and
\* '{objectName}-' joined by slashes, followed by the name of the file and
\* the extension of its mime type.
C30_StorageUrl ==
    \A c \in Callers :
        LET f == calls[c]
            r == IF c[1] = "req" THEN c[2]
                 ELSE IF f.st = "idle" THEN 0
                 ELSE db[passes[c[2]].pending[passes[c[2]].idx]].by
        IN
        (r \in 1..MaxReqs /\ Len(f.urls) > 0) =>
            LET bucket == Collection[reqs[r].profile].bucket
                object == Collection[reqs[r].profile].objects[reqs[r].object]
            IN
            \A i \in 1..Len(f.urls) :
                f.urls[i].defined =>
                    /\ f.urls[i].host =
                          IF bucket.region \in {"us-east-1", ""}
                          THEN <<bucket.name, "s3", "amazonaws.com">>
                          ELSE <<bucket.name, "s3", bucket.region, "amazonaws.com">>
                    /\ f.urls[i].key.prefix =
                          joinPath(<<bucket.basePath, object.bucketPath,
                                     <<reqs[r].object, "-">>>>)
                    /\ (reqs[r].profile = "default" /\ reqs[r].object = "avatar") =>
                          f.urls[i].key.prefix =
                              <<"giger", "/", "avatars", "/", "avatar", "-">>
                    /\ (reqs[r].profile = "legacy" /\ reqs[r].object = "scan") =>
                          f.urls[i].key.prefix = <<"files", "/", "scan", "-">>
                    /\ f.urls[i].key.name = f.files[i].filename
                    /\ f.urls[i].key.ext = Extension(f.files[i].mimetype)

\* a file of a profile whose bucket is in another region has been stored
C30_Witness ==
    /\ reqs[1].profile = "healthcare" /\ reqs[1].object = "avatar"
    /\ Len(calls[<<"req", 1>>].urls) = 2
    /\ calls[<<"req", 1>>].urls[2] =
          [defined |-> TRUE,
           host |-> <<"health", "s3", "eu-west-1", "amazonaws.com">>,
           key |-> [prefix |-> <<"avatars", "/", "avatar", "-">>,
                    name |-> <<1, Underscore, TransformName(1)>>, ext |-> "webp"]]

----------------------------------------------------------------------------
(* The CDN, the scheduler and the drain passes under concurrency *)

\* C31: when the bucket of the profile configures a CDN front-end, every URL
\* in the result of the upload is the CDN URL of the object (the CDN host and
\* the path of the object) instead of the storage URL.
C31_CdnUrls ==
    \A r \in 1..MaxReqs :
        (/\ reqs[r].pc = "done" /\ reqs[r].result = "ok" /\ ~reqs[r].async
         /\ reqs[r].profile \in DOMAIN Collection
         /\ Collection[reqs[r].profile].bucket.cloudfront # "") =>
            \A i \in 1..Len(reqs[r].urls) :
                reqs[r].urls[i].defined =>
                    reqs[r].urls[i].host =
                        <<Collection[reqs[r].profile].bucket.cloudfront>>

\* C32: after any interleaving of async enqueues and drain passes, whenever a
\* pending job exists, no drain pass is in progress and no enqueue is between
\* its insertion and its start of the scheduler, the scheduler is running: a
\* pending job is never left behind with the scheduler stopped (stated for
\* the runs in which no call to the store or to S3 fails).
C32_PendingJobScheduled ==
    (/\ faults = 0
     /\ \E j \in 1..Len(db) : db[j].status = "pending"
     /\ \A p \in 1..Len(passes) : passes[p].pc = "done"
     /\ \A r \in 1..MaxReqs : reqs[r].pc \in {"idle", "done"})
    => cron.running

\* C33: in a single process every job is handed to uploadToS3 at most once,
\* also when a tick of the scheduler fires while the previous drain pass is
\* still uploading the jobs it fetched: no two drain passes call uploadToS3
\* for the same job (stated for the runs in which no call to the store or to
\* S3 fails).
C33_UploadedOnce ==
    faults = 0 =>
        \A p, q \in 1..Len(passes) :
            p # q => passes[p].attempted \cap passes[q].attempted = {}

----------------------------------------------------------------------------
(* Two requests that carry tags, and one drain pass *)

\* the requests: POST /upload/default/<object>[/<tag>] with a JPEG image, a
\* PDF or a video; '20' and '20 21' are tags of one and two characters
TaggedInputs ==
    [methods |-> {"POST"}, keys |-> {"unset"}, origins |-> {"ok"},
     profiles |-> {"default"}, objects |-> {"avatar", "video", "scan"},
     tags |-> {<<>>, <<20>>, <<20, 21>>}, hasFile |-> {TRUE},
     mimetypes |-> {"image/jpeg", "application/pdf", "video/mp4"},
     images |-> {Image(450, 300)}]

NextTagged ==
    \/ \E r \in 1..MaxReqs : ReqArrive(r, TaggedInputs)
    \/ \E r \in 1..MaxReqs : ReqMeta(r)
    \/ \E r \in 1..MaxReqs : ReqInspected(r)
    \/ \E r \in 1..MaxReqs : ReqProcess(r)
    \/ \E r \in 1..MaxReqs : ReqInserted(r)
    \/ Tick(1)
    \/ \E p \in 1..Len(passes) : PassFetched(p)
    \/ \E p \in 1..Len(passes) : PassLocked(p)
    \/ \E p \in 1..Len(passes) : PassSucceeded(p)
    \/ \E p \in 1..Len(passes) : PassFailed(p)
    \/ \E p \in 1..Len(passes) : PassCounted(p)
    \/ \E c \in Callers : PutAnswered(c)

TaggedSpec == Init /\ [][NextTagged]_vars

\* the entries of TEMP_DIR that request q holds: its source from multer's
\* write on (api.js:48-54), and the files of its list once storeFiles is
\* called (api.js:104-130)
Held(q) ==
    IF reqs[q].pc \in {"meta", "inspect", "process"} THEN {reqs[q].path}
    ELSE IF reqs[q].pc \in {"upload", "insert"}
    THEN {reqs[q].files[i].path : i \in 1..Len(reqs[q].files)}
    ELSE {}

\* the entries of TEMP_DIR that job j holds while it waits for a drain pass
HeldByJob(j) ==
    IF db[j].status = "pending"
    THEN {db[j].files[i].path : i \in 1..Len(db[j].files)}
    ELSE {}

\* request r takes a step
Acts(r) == reqs'[r] # reqs[r] \/ calls'[<<"req", r>>] # calls[<<"req", r>>]

\* C34: removeFile called for one request or one job deletes only temp files
\* of that request or job: a step of a request or of a drain pass deletes no
\* entry that another in-flight request or a pending job holds under a path
\* different from every path of the one that acts.
C34_RemoveOwnFiles ==
    [][\A f \in (DOMAIN tmp) \ (DOMAIN tmp') :
          /\ \A q \in 1..MaxReqs :
                (f \in Held(q) /\ ~Acts(q)) =>
                    \E r \in 1..MaxReqs : Acts(r) /\ f \in Held(r)
          /\ \A j \in 1..Len(db) :
                f \in HeldByJob(j) =>
                    \E r \in 1..MaxReqs : Acts(r) /\ f \in Held(r)]_vars

\* C35: two requests never use the same temp path at the same time: no entry
\* of TEMP_DIR is held by two in-flight requests, nor by an in-flight request
\* and the pending job of another request, also when they carry the same tag.
C35_DisjointPaths ==
    /\ \A q, r \in 1..MaxReqs : q # r => Held(q) \cap Held(r) = {}
    /\ \A r \in 1..MaxReqs : \A j \in 1..Len(db) :
          db[j].by # r => Held(r) \cap HeldByJob(j) = {}

\* C36: every job that a drain pass marks uploading is moved to success or
\* failed by that same pass, also when the upload, the removal of the temp
\* files or an update of the store throws: once the pass has ended no job it
\* marked (and no other pass marked) is still in status uploading.
C36_ClaimedJobsSettled ==
    \A p \in 1..Len(passes) :
        passes[p].pc = "done" =>
            \A j \in passes[p].locked :
                (\A q \in 1..Len(passes) : q # p => j \notin passes[q].locked)
                    => db[j].status # "uploading"

\* C37: a sweep of the cleaning job never deletes a temp file whose own
\* modification age is below the threshold of 12 hours.
C37_SweepSparesFreshFiles ==
    [][cron'.sweeps # cron.sweeps =>
          \A f \in (DOMAIN tmp) \ (DOMAIN tmp') : tmp[f].age >= Expiry]_vars

----------------------------------------------------------------------------
(* One image and the transforms of its object: resizes and blurs on the one
   handle of transformImage *)

MaxSteps == 3

\* the k-th transform of a list: with or without a name, a width, a height
\* and a blur (0: the key is not set)
TransformChoices(k) ==
    [name : {<<>>, <<TransformName(k)>>}, width : {0, 100 * k},
     height : {0, 75 * k}, blur : {0, k}]

RECURSIVE TransformLists(_)
\* the lists of n transforms an object may configure
TransformLists(n) ==
    IF n = 0 THEN {<<>>}
    ELSE {Append(l, t) : l \in TransformLists(n - 1), t \in TransformChoices(n)}

\* multer has stored the JPEG image of request r (part_000:29,87-92), and
\* processFile has read the metadata of its object, whose transforms are a
\* list of at most MaxSteps (api.js:78-104)
ReqStudio(r) ==
    /\ reqs[r].pc = "idle"
    /\ \E n \in 0..MaxSteps : \E transforms \in TransformLists(n) :
        /\ tmp' = WriteFile(tmp, <<r>>, 1)
        /\ reqs' = [reqs EXCEPT ![r] = [IdleReq EXCEPT !.pc = "process",
                                   !.path = <<r>>, !.filename = <<r>>,
                                   !.mimetype = "image/jpeg", !.format = "jpeg",
                                   !.transforms = transforms,
                                   !.nt = NamedCount(transforms)]]
    /\ UNCHANGED <<db, cron, passes, calls, faults>>

NextStudio ==
    \/ ReqStudio(1)
    \/ ReqProcess(1)
    \/ \E c \in Callers : PutAnswered(c)

StudioSpec == Init /\ [][NextStudio]_vars

\* the positions of the transforms of ts that have a name, in list order
RECURSIVE NamedPositions(_, _)
NamedPositions(ts, i) ==
    IF i > Len(ts) THEN <<>>
    ELSE (IF ts[i].name # <<>> THEN <<i>> ELSE <<>>) \o NamedPositions(ts, i + 1)

\* the last call of kind op made on the handle, <<>> when there is none
RECURSIVE LastCall(_, _)
LastCall(handle, op) ==
    IF handle = <<>> THEN <<>>
    ELSE IF handle[Len(handle)].op = op THEN <<handle[Len(handle)]>>
    ELSE LastCall(SubSeq(handle, 1, Len(handle) - 1), op)

\* the transforms up to position i that have a name and set a resize, or a blur
Resizers(ts, i) ==
    {k \in 1..i : ts[k].name # <<>> /\ (ts[k].width # 0 \/ ts[k].height # 0)}
Blurrers(ts, i) == {k \in 1..i : ts[k].name # <<>> /\ ts[k].blur # 0}

Latest(S) == CHOOSE k \in S : \A m \in S : m <= k

\* C38: the transforms are applied in list order on one handle: for the file
\* of each transform that has a name, the resize in effect is the one of the
\* latest transform with a name, up to this one, that sets a width or a
\* height, and the blur in effect is that of the latest one that sets a blur
\* (none when there is no such transform); what is written for transform i
\* is what the list cut after i writes last; and a transform with neither
\* width nor height makes no call of resize.
C38_SharedHandle ==
    \A r \in 1..MaxReqs :
        reqs[r].pc \notin {"idle", "process"} =>
            LET ts == reqs[r].transforms
                at == NamedPositions(ts, 1)
                out == reqs[r].renders
            IN
            /\ Len(out) = Len(at)
            /\ \A m \in 1..Len(at) :
                LET i == at[m]
                    resize == LastCall(out[m], "resize")
                    blur == LastCall(out[m], "blur")
                    before == IF m = 1 THEN <<>> ELSE out[m - 1]
                    cut == Rendered(<<>>, SubSeq(ts, 1, i))
                IN
                /\ IF Resizers(ts, i) = {} THEN resize = <<>>
                   ELSE /\ resize # <<>>
                        /\ resize[1].width = ts[Latest(Resizers(ts, i))].width
                        /\ resize[1].height = ts[Latest(Resizers(ts, i))].height
                /\ IF Blurrers(ts, i) = {} THEN blur = <<>>
                   ELSE blur # <<>> /\ blur[1].sigma = ts[Latest(Blurrers(ts, i))].blur
                /\ out[m] = cut[Len(cut)]
                /\ (ts[i].width = 0 /\ ts[i].height = 0) =>
                      Cardinality({c \in 1..Len(out[m]) : out[m][c].op = "resize"})
                        = Cardinality({c \in 1..Len(before) : before[c].op = "resize"})

\* three files have been written: the first transform sets a resize and a
\* blur, the second one has no name, and the third one sets nothing
C38_Witness ==
    \E r \in 1..MaxReqs :
        /\ reqs[r].pc = "done" /\ reqs[r].result = "ok"
        /\ Len(reqs[r].transforms) = 3 /\ Len(reqs[r].renders) = 2
        /\ reqs[r].transforms[1].width # 0 /\ reqs[r].transforms[1].blur # 0
        /\ reqs[r].transforms[2].name = <<>> /\ reqs[r].transforms[2].width # 0
        /\ reqs[r].transforms[3].width = 0 /\ reqs[r].transforms[3].height = 0
        /\ reqs[r].transforms[3].blur = 0
        /\ reqs[r].renders[2] = reqs[r].renders[1]

\* C39: in a multipart upload every part except the last one has exactly the
\* chunk size of 50 MB, and the data buffered in memory for one file never
\* exceeds one chunk of 50 MB.
C39_FixedChunks ==
    \A c \in Callers :
        /\ calls[c].str.acc <= DEFAULT_CHUCK_SIZE
        /\ \A k \in 1..(Len(calls[c].str.sent) - 1) :
              calls[c].str.sent[k].len = DEFAULT_CHUCK_SIZE

\* the greatest common divisor of two positive numbers
RECURSIVE Gcd(_, _)
Gcd(a, b) == IF b = 0 THEN a ELSE Gcd(b, a % b)

\* C40: the nearest aspect ratio of an image is 'A:B' with A and B between 1
\* and 16 and coprime, with A >= B when the width is not below the height and
\* A <= B when the width is not above the height.
C40_RatioShape ==
    \A r \in 1..MaxReqs :
        reqs[r].ratio # <<>> =>
            LET A == reqs[r].ratio[1]
                B == reqs[r].ratio[2]
            IN
            /\ Len(reqs[r].ratio) = 2
            /\ A \in 1..maxWidth /\ B \in 1..maxHeight
            /\ Gcd(A, B) = 1
            /\ reqs[r].image.width >= reqs[r].image.height => A >= B
            /\ reqs[r].image.width <= reqs[r].image.height => A <= B

\* the ratio of a portrait image of 30 x 100 has been computed: 3:10
C40_Witness ==
    \E r \in 1..MaxReqs :
        /\ reqs[r].ratio # <<>>
        /\ reqs[r].image = Image(30, 100)
        /\ reqs[r].ratio = <<3, 10>>

====
